---- MODULE Spec2Model ----
(***************************************************************************)
(* State-machine model of the OSD compositor's frame orchestrator          *)
(* (src/src/osd_plugin.c): the exported entry points init, update_state,   *)
(* render, get_framebuffer and destroy, the telemetry decoder with its     *)
(* opaque-payload dispatch, and the widget pass of render_widgets.         *)
(*                                                                         *)
(* The nanopb wire format is abstracted: a telemetry message is a sequence *)
(* of wire units (top-level fields), each with its byte length.  The       *)
(* telemetry buffer is kept byte-exact in run-length form.                 *)
(***************************************************************************)
EXTENDS Integers, Sequences, FiniteSets, TLC

\* ---------------------------------------------------------------------
\* Bounds of the model
\* ---------------------------------------------------------------------
MaxCalls == 5

\* ---------------------------------------------------------------------
\* Program constants
\* ---------------------------------------------------------------------
PROTO_BUFFER_SIZE == 16384
PAYLOAD_BUFFER_SIZE == 4096
OSD_MAX_DETECTIONS == 64

OSD_CLIENT_METADATA_UUID == "01941b00-0000-7000-8000-000000000001"
CV_META_UUID == "019c3e33-d52d-7552-b36b-6fdcaa5d59b8"
OBJECT_DETECTIONS_DAY_UUID == "019c40f6-825c-7f4c-8284-ddad4375ed9b"
OBJECT_DETECTIONS_HEAT_UUID == "019c40f6-825d-7e0e-9893-87c7b167a751"
UNKNOWN_UUID == "00000000-0000-0000-0000-000000000000"

OPAQUE_TYPE_NONE == 0
OPAQUE_TYPE_CLIENT_META == 1
OPAQUE_TYPE_CV_META == 2
OPAQUE_TYPE_DETECTIONS == 3

DETECTION_STATUS_OK == 1

\* ---------------------------------------------------------------------
\* Build variants (compile-time defines OSD_STREAM_DAY, OSD_STREAM_THERMAL)
\* ---------------------------------------------------------------------
Builds == [stream : {"DAY", "THERMAL"}]

\* ---------------------------------------------------------------------
\* Configuration files (enable flags of the widgets, osd_config_t)
\* ---------------------------------------------------------------------
WidgetNames == <<"crosshair", "timestamp", "navball", "variant_info",
                 "sharpness_heatmap", "detections", "roi", "sam_mask",
                 "autofocus_debug">>

\* g_osd_ctx.config of a module that never parsed a file: static zero
ZeroConfig == [crosshair |-> FALSE, timestamp |-> FALSE, navball |-> FALSE,
               variant_info |-> FALSE, sharpness_heatmap |-> FALSE,
               detections |-> FALSE, roi |-> FALSE, sam_mask |-> FALSE,
               autofocus_debug |-> FALSE, min_confidence |-> 0,
               mask_enabled |-> FALSE, per_class_color |-> FALSE]

\* a configuration file that enables every widget
ConfigAll == [crosshair |-> TRUE, timestamp |-> TRUE, navball |-> TRUE,
              variant_info |-> TRUE, sharpness_heatmap |-> TRUE,
              detections |-> TRUE, roi |-> TRUE, sam_mask |-> TRUE,
              autofocus_debug |-> TRUE, min_confidence |-> 25,
              mask_enabled |-> TRUE, per_class_color |-> TRUE]

\* a configuration file that enables the telemetry-driven widgets only
ConfigData == [crosshair |-> FALSE, timestamp |-> TRUE, navball |-> FALSE,
               variant_info |-> FALSE, sharpness_heatmap |-> TRUE,
               detections |-> TRUE, roi |-> TRUE, sam_mask |-> TRUE,
               autofocus_debug |-> FALSE, min_confidence |-> 25,
               mask_enabled |-> TRUE, per_class_color |-> FALSE]

ConfigFiles == {ConfigAll, ConfigData}

\* ---------------------------------------------------------------------
\* Telemetry on the wire.  A message is a sequence of top-level fields of
\* JonGUIState ("units"); len is the unit's size in bytes on the wire.
\*   k = "time"    : the time submessage (val = timestamp seconds)
\*   k = "compass" : the compass submessage
\*   k = "cv"      : the cv submessage carrying ROIs
\*   k = "opaque"  : one element of opaque_payloads (uuid, payload bytes)
\*   k = "badwrap" : an opaque_payloads element whose wrapper is malformed
\*   k = "corrupt" : bytes that are no valid field (outer decode fails)
\*   k = "unknownfield" : a field the schema does not know (skipped)
\* inner describes what decoding the payload bytes yields.
\* ---------------------------------------------------------------------
Float(v) == [nan |-> FALSE, v |-> v]
NaN == [nan |-> TRUE, v |-> 0]

NoInner == [ok |-> TRUE, w |-> 0, h |-> 0, dpr |-> Float(0),
            has_day |-> FALSE, day_valid |-> FALSE,
            has_heat |-> FALSE, heat_valid |-> FALSE,
            level0 |-> 0, grid |-> <<>>,
            dets |-> <<>>, status |-> 0]

Scalar(kind, v) ==
  [k |-> kind, len |-> 12, uuid |-> "", psize |-> 0, inner |-> NoInner, val |-> v]

Opaque(id, size, in) ==
  [k |-> "opaque", len |-> size + 44, uuid |-> id, psize |-> size,
   inner |-> in, val |-> 0]

BadWrapper == [k |-> "badwrap", len |-> 20, uuid |-> "", psize |-> 0,
               inner |-> NoInner, val |-> 0]

Corrupt == [k |-> "corrupt", len |-> 3, uuid |-> "", psize |-> 0,
            inner |-> NoInner, val |-> 0]

UnknownField(n) == [k |-> "unknownfield", len |-> n, uuid |-> "", psize |-> 0,
                    inner |-> NoInner, val |-> 0]

\* inner messages
ClientMeta(cw, ch, ratio) == [NoInner EXCEPT !.w = cw, !.h = ch, !.dpr = ratio]
CvMetaBoth(score, cells) ==
  [NoInner EXCEPT !.has_day = TRUE, !.day_valid = TRUE,
                  !.has_heat = TRUE, !.heat_valid = TRUE,
                  !.level0 = score, !.grid = cells]
\* a detection; its box, in NDC hundredths, is x1, y1, x2, y2
DetectionAt(conf, class, box) ==
  [confidence |-> conf, class_id |-> class,
   x1 |-> box[1], y1 |-> box[2], x2 |-> box[3], y2 |-> box[4]]
Detection(conf, class) == DetectionAt(conf, class, <<-50, -50, 50, 50>>)
Detections(st, items) == [NoInner EXCEPT !.status = st, !.dets = items]
Undecodable(in) == [in EXCEPT !.ok = FALSE]

Grid2 == <<30, 80>>
Det2 == <<Detection(90, 0), Detection(10, 5)>>

\* OSD_MAX_DETECTIONS + 1 detections; the class of the first is negative,
\* the class of the second lies beyond the 80 labels
ManyDetections ==
  [i \in 1..(OSD_MAX_DETECTIONS + 1) |->
     Detection(90, IF i = 1 THEN -1 ELSE IF i = 2 THEN 87 ELSE i)]

GoodClientMeta == Opaque(OSD_CLIENT_METADATA_UUID, 40, ClientMeta(1920, 1080, Float(2)))
GoodCvMeta == Opaque(CV_META_UUID, 300, CvMetaBoth(72, Grid2))
GoodDetDay == Opaque(OBJECT_DETECTIONS_DAY_UUID, 60, Detections(DETECTION_STATUS_OK, Det2))
GoodDetHeat == Opaque(OBJECT_DETECTIONS_HEAT_UUID, 60, Detections(DETECTION_STATUS_OK, Det2))
OversizedCvMeta == Opaque(CV_META_UUID, PAYLOAD_BUFFER_SIZE + 1, CvMetaBoth(72, Grid2))
BrokenDetDay == Opaque(OBJECT_DETECTIONS_DAY_UUID, 60,
                       Undecodable(Detections(DETECTION_STATUS_OK, Det2)))
BrokenDetHeat == Opaque(OBJECT_DETECTIONS_HEAT_UUID, 60,
                        Undecodable(Detections(DETECTION_STATUS_OK, Det2)))
BrokenClientMeta == Opaque(OSD_CLIENT_METADATA_UUID, 40,
                           Undecodable(ClientMeta(1920, 1080, Float(2))))
UnmatchedPayload == Opaque(UNKNOWN_UUID, 16, NoInner)
\* each channel's detections of one object beyond the right edge of the frame
OffFrameDet == <<DetectionAt(90, 0, <<120, -50, 150, 50>>)>>
OffFrameDetDay == Opaque(OBJECT_DETECTIONS_DAY_UUID, 30,
                         Detections(DETECTION_STATUS_OK, OffFrameDet))
OffFrameDetHeat == Opaque(OBJECT_DETECTIONS_HEAT_UUID, 30,
                          Detections(DETECTION_STATUS_OK, OffFrameDet))

\* The host memory regions the model's host hands to update_state.
HostMessages ==
  << \* 1: a full frame: scalars and every opaque payload
     <<Scalar("time", 0), Scalar("compass", 0), Scalar("cv", 0),
       GoodClientMeta, GoodCvMeta, GoodDetDay, GoodDetHeat>>,
     \* 2: good payloads, then corrupt bytes
     <<GoodCvMeta, GoodDetDay, GoodDetHeat, GoodClientMeta, Corrupt>>,
     \* 3: failing payloads followed by good ones
     <<OversizedCvMeta, BrokenDetDay, BrokenDetHeat, GoodClientMeta>>,
     \* 4: failing client metadata and an unknown UUID, then good payloads
     <<BrokenClientMeta, UnmatchedPayload, GoodCvMeta, GoodDetDay, GoodDetHeat>>,
     \* 5: no opaque payload; the message fills the telemetry buffer exactly
     <<Scalar("time", 0), UnknownField(PROTO_BUFFER_SIZE - 12)>>,
     \* 6: a malformed opaque wrapper after a good payload
     <<GoodCvMeta, BadWrapper>>
  >>

\* Telemetry of the long-running scenarios: one frame's message each.
ClientMetaFrame(cw, ch, ratio) ==
  <<Opaque(OSD_CLIENT_METADATA_UUID, 40, ClientMeta(cw, ch, ratio))>>

ProbeMessages ==
  << \* a frame whose only opaque payload has a UUID of no registry entry
     <<UnmatchedPayload>>,
     \* frames whose only opaque payload is one channel's detections
     <<GoodDetDay>>,
     <<GoodDetHeat>>,
     \* frames whose only opaque payload is a client metadata: each field
     \* in turn at and beyond the limits of the range validation
     ClientMetaFrame(0, 1080, Float(2)),
     ClientMetaFrame(1, 1080, Float(2)),
     ClientMetaFrame(40960, 1080, Float(2)),
     ClientMetaFrame(40961, 1080, Float(2)),
     ClientMetaFrame(1920, 0, Float(2)),
     ClientMetaFrame(1920, 1, Float(2)),
     ClientMetaFrame(1920, 40960, Float(2)),
     ClientMetaFrame(1920, 40961, Float(2)),
     ClientMetaFrame(1920, 1080, Float(-1)),
     ClientMetaFrame(1920, 1080, Float(0)),
     ClientMetaFrame(1920, 1080, Float(1)),
     ClientMetaFrame(1920, 1080, Float(10)),
     ClientMetaFrame(1920, 1080, Float(11)),
     ClientMetaFrame(1920, 1080, NaN),
     \* a frame that carries one detection more than the cache holds
     <<Opaque(OBJECT_DETECTIONS_DAY_UUID, 2500,
              Detections(DETECTION_STATUS_OK, ManyDetections)),
       Opaque(OBJECT_DETECTIONS_HEAT_UUID, 2500,
              Detections(DETECTION_STATUS_OK, ManyDetections))>>,
     \* a frame whose detections were decoded with a status other than OK
     <<Opaque(OBJECT_DETECTIONS_DAY_UUID, 60, Detections(DETECTION_STATUS_OK + 1, Det2)),
       Opaque(OBJECT_DETECTIONS_HEAT_UUID, 60, Detections(DETECTION_STATUS_OK + 1, Det2))>>,
     \* a frame whose detections lie outside the frame
     <<OffFrameDetDay, OffFrameDetHeat>>
  >>

Messages == HostMessages \o ProbeMessages

MessageIds == 1..Len(Messages)
HostMessageIds == 1..Len(HostMessages)
UnmatchedMessage == Len(HostMessages) + 1
ProbeMessageIds == (UnmatchedMessage + 1)..Len(Messages)
OffFrameMessage == Len(Messages)

RECURSIVE SumLen(_, _)
SumLen(units, n) == IF n = 0 THEN 0 ELSE SumLen(units, n - 1) + units[n].len

\* number of bytes the message occupies in host memory
WireLen(m) == SumLen(Messages[m], Len(Messages[m]))

\* the sizes the host passes with region m that fit the buffer: the whole
\* message and, for the full frame, the message cut inside its last unit
FittingSizes(m) == {WireLen(m)} \cup (IF m = 1 THEN {WireLen(m) - 1} ELSE {})

\* the sizes the host passes that do not: empty and one byte more than the
\* buffer
UnfitSizes == {0, PROTO_BUFFER_SIZE + 1}


\* ---------------------------------------------------------------------
\* The telemetry buffer g_osd_ctx.proto_buffer, byte-exact in run-length
\* form: a sequence of segments [m, upto]; the bytes at offsets
\* [previous upto, upto) are the bytes at the same offsets of host region m
\* (m = 0: the zero bytes of static initialisation).  update_state always
\* copies from offset 0 of the region to offset 0 of the buffer.
\* ---------------------------------------------------------------------
ZeroBuffer == <<[m |-> 0, upto |-> PROTO_BUFFER_SIZE]>>

RECURSIVE DropUpTo(_, _)
DropUpTo(segs, n) ==
  IF segs = <<>> THEN <<>>
  ELSE IF segs[1].upto <= n THEN DropUpTo(Tail(segs), n)
  ELSE segs

Memcpy_OneShort(buf, m, n) ==
  LET rest == DropUpTo(buf, n - 1)
  IN IF n <= 1 THEN buf
     ELSE IF rest # <<>> /\ rest[1].m = m THEN rest
     ELSE <<[m |-> m, upto |-> n - 1]>> \o rest

\* memcpy(proto_buffer, region m, n)
Memcpy(buf, m, n) ==
  LET rest == DropUpTo(buf, n)
  IN IF n = 0 THEN buf
     ELSE IF rest # <<>> /\ rest[1].m = m THEN rest
     ELSE <<[m |-> m, upto |-> n]>> \o rest

\* the region whose byte sits at offset i of the buffer
RECURSIVE ByteAt(_, _)
ByteAt(buf, i) ==
  IF buf = <<>> THEN -1
  ELSE IF i < buf[1].upto THEN buf[1].m
  ELSE ByteAt(Tail(buf), i)

\* ---------------------------------------------------------------------
\* Decoded caches of osd_context_t
\* ---------------------------------------------------------------------
ZeroClientMetadata ==
  [canvas_width_px |-> 0, canvas_height_px |-> 0,
   device_pixel_ratio |-> Float(0), valid |-> FALSE]

\* osd_state_get_client_metadata: the metadata it hands to a widget
OsdStateGetClientMetadata(ctx) ==
  IF ctx.client_metadata.valid THEN ctx.client_metadata ELSE ZeroClientMetadata

ZeroCvMeta ==
  [sharpness_level0 |-> 0, sharpness_level3 |-> <<>>,
   sharpness_level3_count |-> 0, sharpness_valid |-> FALSE]

ZeroDetections == [items |-> <<>>, count |-> 0, status |-> 0, valid |-> FALSE]

\* bounding box and centroid are NDC values in hundredths; mask_rle holds
\* the first mask_rle_len bytes of the array; mask_data holds the array up
\* to its last non-zero byte (every byte after it is 0); status and state
\* are enumerators, "ZERO" the one of value 0
ZeroSamTracking ==
  [status |-> "ZERO", state |-> "ZERO",
   bbox_x1 |-> 0, bbox_y1 |-> 0, bbox_x2 |-> 0, bbox_y2 |-> 0,
   centroid_x |-> 0, centroid_y |-> 0,
   mask_rle |-> <<>>, mask_rle_len |-> 0, mask_data |-> <<>>,
   mask_width |-> 0, mask_height |-> 0, valid |-> FALSE]

OSD_SAM_MASK_WIDTH == 256
OSD_SAM_MASK_HEIGHT == 256
OSD_SAM_STATUS_OK == "OK"
OSD_SAM_STATE_IDLE == "IDLE"

\* SAM tracking as its decoder leaves it in the context: a box inside the
\* frame or beyond its right edge or empty, a 2x2 mask whose RLE bytes fill
\* it, fill half of it, fill it with zeros, or are absent
SamBoxes == {<<-50, -50, 50, 50>>, <<150, -50, 200, 50>>, <<50, 50, 50, 50>>}
SamRles == {<<>>, <<4, 0, 1>>, <<2, 0, 1>>, <<4, 0, 0>>}
SamTrackingInputs ==
  {ZeroSamTracking} \cup
  {[ZeroSamTracking EXCEPT !.status = st, !.state = state,
                           !.bbox_x1 = b[1], !.bbox_y1 = b[2],
                           !.bbox_x2 = b[3], !.bbox_y2 = b[4],
                           !.centroid_x = (b[1] + b[3]) \div 2,
                           !.centroid_y = (b[2] + b[4]) \div 2,
                           !.mask_rle = rle, !.mask_rle_len = Len(rle),
                           !.mask_width = 2, !.mask_height = 2,
                           !.valid = TRUE] :
     st \in {OSD_SAM_STATUS_OK}, state \in {OSD_SAM_STATE_IDLE, "TRACKING"},
     b \in SamBoxes, rle \in SamRles}
     \cup {[ZeroSamTracking EXCEPT !.status = "ERROR", !.state = "TRACKING",
                                   !.valid = TRUE]}

\* the zero-initialised ser_JonGUIState of wasm_osd_render; null marks the
\* NULL pointer handed to the widgets when the decode did not succeed
ZeroPbState == [null |-> FALSE, has_time |-> FALSE, timestamp |-> 0,
                has_compass |-> FALSE, has_cv |-> FALSE]
NullPbState == [ZeroPbState EXCEPT !.null = TRUE]

\* arr[idx] = v on a C array kept as the sequence of its entries up to the
\* highest one ever written (the entries beyond are the static zeros)
ArrayStore(arr, idx, v) ==
  IF idx + 1 <= Len(arr) THEN [arr EXCEPT ![idx + 1] = v] ELSE Append(arr, v)

\* ---------------------------------------------------------------------
\* Opaque payload dispatch
\* ---------------------------------------------------------------------
MatchUuid_AnyChannel(stream, uuid) ==
  IF uuid = OSD_CLIENT_METADATA_UUID THEN OPAQUE_TYPE_CLIENT_META
  ELSE IF uuid = CV_META_UUID THEN OPAQUE_TYPE_CV_META
  ELSE IF uuid = OBJECT_DETECTIONS_DAY_UUID THEN OPAQUE_TYPE_DETECTIONS
  ELSE IF uuid = OBJECT_DETECTIONS_HEAT_UUID THEN OPAQUE_TYPE_DETECTIONS
  ELSE OPAQUE_TYPE_NONE

\* opaque_uuid_decode_callback: the OPAQUE_TYPE_* the UUID selects in a build
MatchUuid(stream, uuid) ==
  IF uuid = OSD_CLIENT_METADATA_UUID THEN OPAQUE_TYPE_CLIENT_META
  ELSE IF uuid = CV_META_UUID THEN OPAQUE_TYPE_CV_META
  ELSE IF stream = "DAY" /\ uuid = OBJECT_DETECTIONS_DAY_UUID THEN OPAQUE_TYPE_DETECTIONS
  ELSE IF stream = "THERMAL" /\ uuid = OBJECT_DETECTIONS_HEAT_UUID THEN OPAQUE_TYPE_DETECTIONS
  ELSE OPAQUE_TYPE_NONE

PayloadSize_Unchecked(psize) == psize

ClientMetadataInvalid_NoUpperBound(in) ==
  \/ in.w = 0
  \/ in.h = 0
  \/ (~in.dpr.nan /\ in.dpr.v <= 0)
  \/ in.dpr.nan

\* opaque_payload_decode_callback: the payload_size left in cb_ctx
PayloadSize(psize) == IF psize > PAYLOAD_BUFFER_SIZE THEN 0 ELSE psize

\* the range validation of OsdClientMetadata
ClientMetadataInvalid(in) ==
  \/ in.w = 0 \/ in.w > 40960
  \/ in.h = 0 \/ in.h > 40960
  \/ (~in.dpr.nan /\ in.dpr.v <= 0)
  \/ (~in.dpr.nan /\ in.dpr.v > 10)
  \/ in.dpr.nan

\* sharpness_level3_decode_callback, once per element of the repeated field
RECURSIVE StoreLevel3(_, _, _)
StoreLevel3(dest, vals, count) ==
  IF vals = <<>> THEN dest
  ELSE StoreLevel3(IF count < 64 THEN ArrayStore(dest, count, Head(vals)) ELSE dest,
                   Tail(vals), count + 1)

Min(a, b) == IF a < b THEN a ELSE b
Max(a, b) == IF a > b THEN a ELSE b

\* the cache after the callback stored the first n of vals behind its items
StoreFirst(det, vals, n) ==
  [det EXCEPT !.items =
                 [k \in 1..Max(Len(det.items), det.count + n) |->
                    IF k > det.count /\ k <= det.count + n
                      THEN vals[k - det.count]
                      ELSE det.items[k]],
              !.count = det.count + n]

StoreDetections_Unbounded(det, vals) == StoreFirst(det, vals, Len(vals))

\* detections_decode_callback, once per element of the repeated field: an
\* element is stored while count < OSD_MAX_DETECTIONS, the rest is dropped
StoreDetections(det, vals) ==
  StoreFirst(det, vals, Min(Len(vals), Max(0, OSD_MAX_DETECTIONS - det.count)))

\* The decoder's working state: the caches of the context, the two static
\* log counters, and what the decode did (marked: the caches this decode set
\* valid; warns: number of unmatched-UUID log lines it wrote).
DecodeClientMeta(c, in) ==
  IF in.ok /\ ~ClientMetadataInvalid(in)
    THEN [c EXCEPT !.client_metadata =
                      [canvas_width_px |-> in.w, canvas_height_px |-> in.h,
                       device_pixel_ratio |-> in.dpr, valid |-> TRUE],
                   !.marked = c.marked \cup {"client_metadata"}]
    ELSE c

DecodeCvMeta(stream, c, in) ==
  LET has == IF stream = "DAY" THEN in.has_day ELSE in.has_heat
      ok == IF stream = "DAY" THEN in.day_valid ELSE in.heat_valid
      vals == IF has THEN in.grid ELSE <<>>
      written == [c EXCEPT !.cv_meta.sharpness_level3 =
                              StoreLevel3(c.cv_meta.sharpness_level3, vals, 0)]
  IN IF in.ok /\ has /\ ok
       THEN [written EXCEPT !.cv_meta.sharpness_level0 = in.level0,
                            !.cv_meta.sharpness_level3_count = Len(vals),
                            !.cv_meta.sharpness_valid = TRUE,
                            !.marked = c.marked \cup {"sharpness"}]
       ELSE written

DecodeDetections_NoCountReset(c, in) ==
  LET kept == [c EXCEPT !.det_log_counter = c.det_log_counter + 1]
      filled == [kept EXCEPT !.detections = StoreDetections(kept.detections, in.dets)]
  IN IF in.ok
       THEN [filled EXCEPT !.detections.status = in.status,
                           !.detections.valid = TRUE,
                           !.marked = c.marked \cup {"detections"}]
       ELSE filled

DecodeDetections(c, in) ==
  LET reset == [c EXCEPT !.detections.count = 0,
                         !.det_log_counter = c.det_log_counter + 1]
      filled == [reset EXCEPT !.detections = StoreDetections(reset.detections, in.dets)]
  IN IF in.ok
       THEN [filled EXCEPT !.detections.status = in.status,
                           !.detections.valid = TRUE,
                           !.marked = c.marked \cup {"detections"}]
       ELSE filled

\* the rate limit of the unmatched-UUID warning, on the counter's value
\* before its post-increment
UnmatchedLogDue_PreIncrement(counter, uuid_matched) ==
  (counter + 1) % 300 = 0 /\ ~uuid_matched

UnmatchedLogDue(counter, uuid_matched) ==
  counter % 300 = 0 /\ ~uuid_matched

\* opaque_payloads_decode_callback after the wrapper decoded: returns the
\* working state (the callback itself returns true on every such path)
OpaquePayloadsDecodeCallback(stream, c, unit) ==
  LET matched_type == MatchUuid(stream, unit.uuid)
      uuid_matched == matched_type # OPAQUE_TYPE_NONE
      payload_size == PayloadSize(unit.psize)
  IN IF ~uuid_matched \/ payload_size = 0
       THEN [c EXCEPT !.unmatched_log_counter = c.unmatched_log_counter + 1,
                      !.warns = c.warns +
                         (IF UnmatchedLogDue(c.unmatched_log_counter, uuid_matched)
                            THEN 1 ELSE 0)]
     ELSE IF matched_type = OPAQUE_TYPE_CLIENT_META THEN DecodeClientMeta(c, unit.inner)
     ELSE IF matched_type = OPAQUE_TYPE_CV_META THEN DecodeCvMeta(stream, c, unit.inner)
     ELSE DecodeDetections(c, unit.inner)

\* pb_decode of the outer JonGUIState over the first size bytes of the
\* buffer: field after field; stops with status FALSE at a unit that is cut
\* by the end of the stream, is no valid field, or whose callback fails.
RECURSIVE PbDecodeOuter(_, _, _, _, _)
PbDecodeOuter(stream, c, units, off, size) ==
  IF units = <<>> \/ off >= size THEN [c EXCEPT !.status = TRUE]
  ELSE LET u == Head(units) IN
    IF off + u.len > size THEN [c EXCEPT !.status = FALSE]
    ELSE IF u.k = "corrupt" \/ u.k = "badwrap" THEN [c EXCEPT !.status = FALSE]
    ELSE PbDecodeOuter(
           stream,
           CASE u.k = "opaque" -> OpaquePayloadsDecodeCallback(stream, c, u)
             [] u.k = "time" -> [c EXCEPT !.pb.has_time = TRUE, !.pb.timestamp = u.val]
             [] u.k = "compass" -> [c EXCEPT !.pb.has_compass = TRUE]
             [] u.k = "cv" -> [c EXCEPT !.pb.has_cv = TRUE]
             [] OTHER -> c,
           Tail(units), off + u.len, size)


\* ---------------------------------------------------------------------
\* State
\* ---------------------------------------------------------------------
VARIABLES
  build,                  \* the compile-time variant of the module
  g_osd_ctx,              \* static osd_context_t g_osd_ctx
  g_framebuffer,          \* static pixel plane, as the sequence of draws on it
  unmatched_log_counter,  \* static int in opaque_payloads_decode_callback
  det_log_counter,        \* static int in opaque_payloads_decode_callback
  call,                   \* the last exported function the host called
  ret,                    \* its return value
  lifecycle,              \* UNINIT / READY / DESTROYED as the host sees it
  trace,                  \* steps the last call performed, in order
  decoded,                \* what the decoder did during the last call
  calls,                  \* number of calls the host made
  heap                    \* live heap allocations: loaded fonts, navball resources

vars == <<build, g_osd_ctx, g_framebuffer, unmatched_log_counter,
          det_log_counter, call, ret, lifecycle, trace, decoded, calls,
          heap>>

ZeroFont == [valid |-> FALSE]

\* static osd_context_t g_osd_ctx = { 0 }
ZeroCtx ==
  [framebuffer |-> FALSE, width |-> 0, height |-> 0,
   config |-> ZeroConfig,
   font_timestamp |-> ZeroFont, font_speed_indicators |-> ZeroFont,
   font_variant_info |-> ZeroFont,
   navball_texture |-> FALSE,
   proto_buffer |-> ZeroBuffer, proto_size |-> 0, proto_valid |-> FALSE,
   client_metadata |-> ZeroClientMetadata, cv_meta |-> ZeroCvMeta,
   detections |-> ZeroDetections, sam_tracking |-> ZeroSamTracking,
   needs_render |-> FALSE, frame_count |-> 0]

NoDecode == [ran |-> FALSE, status |-> FALSE, marked |-> {}, warns |-> 0]

\* a call: its name, the region and size passed to update_state, and, for a
\* render, whether the call before it was an update_state with size 0.
\* repeat: an accepted update_state that follows a render and delivers the
\* telemetry that render decoded, or the render right after such an update.
\* again: a destroy called right after a destroy.
NoCall == [name |-> "none", m |-> 0, size |-> 0, follows_empty |-> FALSE,
           repeat |-> FALSE, again |-> FALSE]

Init ==
  /\ build \in Builds
  /\ g_osd_ctx = ZeroCtx
  /\ g_framebuffer = <<>>
  /\ unmatched_log_counter = 0
  /\ det_log_counter = 0
  /\ call = NoCall
  /\ ret = 0
  /\ lifecycle = "UNINIT"
  /\ trace = <<>>
  /\ decoded = NoDecode
  /\ calls = 0
  /\ heap = [fonts |-> 0, navball |-> 0]

\* ---------------------------------------------------------------------
\* decode_proto_state
\* ---------------------------------------------------------------------
\* the units of the message whose bytes fill the first size bytes of the buffer
BufferUnits(buf, size) ==
  IF buf # <<>> /\ buf[1].m \in MessageIds /\ buf[1].upto >= size
    THEN Messages[buf[1].m]
    ELSE <<Corrupt>>

\* the decoder's working state at entry
Working(ctx, unmatched, detlog) ==
  [client_metadata |-> ctx.client_metadata, cv_meta |-> ctx.cv_meta,
   detections |-> ctx.detections,
   unmatched_log_counter |-> unmatched, det_log_counter |-> detlog,
   pb |-> ZeroPbState, status |-> FALSE, marked |-> {}, warns |-> 0]

\* the reset of the per-frame CV data at the top of decode_proto_state
ResetPerFrame(c) ==
  [c EXCEPT !.cv_meta.sharpness_valid = FALSE, !.detections.valid = FALSE]

DecodeProtoState(stream, ctx, unmatched, detlog) ==
  LET c == Working(ctx, unmatched, detlog)
  IN IF ~ctx.proto_valid \/ ctx.proto_size = 0
       THEN c
       ELSE PbDecodeOuter(stream, ResetPerFrame(c),
                          BufferUnits(ctx.proto_buffer, ctx.proto_size),
                          0, ctx.proto_size)


\* ---------------------------------------------------------------------
\* Widgets.  Each returns [changed, draws]: its bool result and the draws
\* it blends onto the framebuffer, in order.
\* ---------------------------------------------------------------------
NoDraw == [changed |-> FALSE, draws |-> <<>>]

\* text_render_with_outline: silent on an invalid font
TextDraw(font, what) == IF font.valid THEN <<what>> ELSE <<>>


\* (int)((v + 1.0f) / 2.0f * w) for an NDC value v given in hundredths
NdcToPixel(v, w) ==
  LET n == (v + 100) * w
  IN IF n >= 0 THEN n \div 200 ELSE -((-n) \div 200)

\* number of pixels draw_rect_filled writes: the rectangle clipped to the
\* framebuffer by the bounds check of every pixel
RectPixels(x, y, w, h, width, height) ==
  Max(0, Min(x + w, width) - Max(x, 0)) * Max(0, Min(y + h, height) - Max(y, 0))

\* number of pixels draw_rect_outline writes, edge by edge
OutlinePixels(x, y, w, h, t, width, height) ==
  RectPixels(x, y, w, t, width, height)
  + RectPixels(x, y + h - t, w, t, width, height)
  + RectPixels(x, y + t, t, h - 2 * t, width, height)
  + RectPixels(x + w - t, y + t, t, h - 2 * t, width, height)

\* text_measure_width of the label: 0 with an invalid font, else the sum of
\* the glyph advances (the model's font measures every label 60 pixels wide)
LabelWidth(font) == IF font.valid THEN 60 ELSE 0

\* widgets/crosshair.h: respects config.crosshair.enabled
CrosshairRender(ctx, pb) ==
  IF ~ctx.config.crosshair THEN NoDraw
  ELSE [changed |-> TRUE, draws |-> <<[w |-> "crosshair", what |-> "reticle"]>>]

TimestampRender(ctx, pb) ==
  IF ~ctx.config.timestamp THEN NoDraw
  ELSE IF pb.null \/ ~pb.has_time THEN NoDraw
  ELSE [changed |-> TRUE,
        draws |-> TextDraw(ctx.font_timestamp,
                           [w |-> "timestamp", what |-> pb.timestamp])]

\* widgets/navball.h: false if disabled or no texture; needs has_compass
NavballRender(ctx, pb) ==
  IF ~ctx.config.navball \/ ~ctx.navball_texture THEN NoDraw
  ELSE IF pb.null \/ ~pb.has_compass THEN NoDraw
  ELSE [changed |-> TRUE, draws |-> <<[w |-> "navball", what |-> "sphere"]>>]

\* (the panel's "Draw Count" line prints frame_count.  Its frame-delta line
\* reads the frame-monotonic time, a field the model's messages do not
\* carry: the line prints "N/A" and the widget's delta_history stays empty.)
VariantInfoRender(ctx, pb) ==
  IF ~ctx.config.variant_info THEN NoDraw
  ELSE [changed |-> TRUE,
        draws |-> TextDraw(ctx.font_variant_info,
                           [w |-> "variant_info", what |-> ctx.frame_count])]

\* color_make_argb: the four channels of a pixel
ColorMakeArgb(a, r, g, b) == [a |-> a, r |-> r, g |-> g, b |-> b]

\* sharpness_to_color; the value is in hundredths, the channels are the
\* truncations to uint8_t of the products with 255 (float rounding of the
\* product may move a channel by one unit below the exact quotient)
SharpnessToColor(value) ==
  LET v == IF value < 0 THEN 0 ELSE IF value > 100 THEN 100 ELSE value
  IN IF v < 50
       THEN ColorMakeArgb(200, 0, (2 * v * 255) \div 100,
                          ((100 - 2 * v) * 255) \div 100)
       ELSE ColorMakeArgb(200, ((2 * v - 100) * 255) \div 100,
                          ((200 - 2 * v) * 255) \div 100, 0)

\* the cells sharpness_heatmap_render draws: at most 64 of the cached grid
HeatmapCells(ctx) ==
  SubSeq(ctx.cv_meta.sharpness_level3, 1,
         IF ctx.cv_meta.sharpness_level3_count > 64
           THEN 64
           ELSE ctx.cv_meta.sharpness_level3_count)

\* the least and the greatest value of a non-empty grid
GridMin(cells) ==
  CHOOSE v \in {cells[i] : i \in 1..Len(cells)} :
    \A i \in 1..Len(cells) : v <= cells[i]

GridMax(cells) ==
  CHOOSE v \in {cells[i] : i \in 1..Len(cells)} :
    \A i \in 1..Len(cells) : v >= cells[i]

\* a value rescaled to the range of its grid, the middle for a flat grid
NormalizedAcrossGrid(cells, v) ==
  IF GridMax(cells) - GridMin(cells) > 0
    THEN ((v - GridMin(cells)) * 100) \div (GridMax(cells) - GridMin(cells))
    ELSE 50

SharpnessHeatmapRender_Normalized(ctx, pb) ==
  IF ~ctx.config.sharpness_heatmap THEN NoDraw
  ELSE IF ~ctx.cv_meta.sharpness_valid THEN NoDraw
  ELSE [changed |-> TRUE,
        draws |-> <<[w |-> "sharpness_heatmap",
                     what |-> [i \in 1..Len(HeatmapCells(ctx)) |->
                                SharpnessToColor(
                                  NormalizedAcrossGrid(HeatmapCells(ctx),
                                                       HeatmapCells(ctx)[i]))]]>>]

\* sharpness_heatmap_render: one filled cell per grid value, coloured from
\* the value itself
SharpnessHeatmapRender(ctx, pb) ==
  IF ~ctx.config.sharpness_heatmap THEN NoDraw
  ELSE IF ~ctx.cv_meta.sharpness_valid THEN NoDraw
  ELSE [changed |-> TRUE,
        draws |-> <<[w |-> "sharpness_heatmap",
                     what |-> [i \in 1..Len(HeatmapCells(ctx)) |->
                                SharpnessToColor(HeatmapCells(ctx)[i])]]>>]

\* defaults of the detections section of the configuration file
DetectionBoxThickness == 2
DetectionLabelFontSize == 16

\* the remainder of C's % operator, which truncates towards zero
CRem(a, b) == IF a >= 0 THEN a % b ELSE -((-a) % b)

\* get_class_label: the entry of COCO_LABELS it reads, or the "?" literal
GetClassLabel(class_id) ==
  IF class_id >= 0 /\ class_id < 80
    THEN [in_table |-> TRUE, index |-> class_id]
    ELSE [in_table |-> FALSE, index |-> 0]

\* get_detection_color: the entry of CLASS_COLORS it reads, or the single
\* configured colour (what an entry outside the table holds is arbitrary)
GetDetectionColor(config, class_id) ==
  IF config.per_class_color
    THEN [per_class |-> TRUE, index |-> CRem(class_id, 8)]
    ELSE [per_class |-> FALSE, index |-> 0]

DetectionDraw_NoThreshold(ctx, det) ==
  [changed |-> TRUE, draws |-> <<[w |-> "detections", what |-> det]>>]

\* one turn of the loop of detections_render: whether it sets rendered, and
\* the draw of the box and its label if any of their pixels is in the frame
DetectionDraw(ctx, det) ==
  LET px1 == NdcToPixel(det.x1, ctx.width)
      py1 == NdcToPixel(det.y1, ctx.height)
      px2 == NdcToPixel(det.x2, ctx.width)
      py2 == NdcToPixel(det.y2, ctx.height)
      bw == px2 - px1
      bh == py2 - py1
      label_h == DetectionLabelFontSize + 2
      ly == IF py1 - label_h - 1 < 0 THEN py1 + 1 ELSE py1 - label_h - 1
      pixels == OutlinePixels(px1, py1, bw, bh, DetectionBoxThickness,
                              ctx.width, ctx.height)
                + RectPixels(px1, ly, LabelWidth(ctx.font_variant_info) + 4,
                             label_h, ctx.width, ctx.height)
  IN IF det.confidence < ctx.config.min_confidence THEN NoDraw
     ELSE IF bw <= 0 \/ bh <= 0 THEN NoDraw
     ELSE [changed |-> TRUE,
           draws |-> IF pixels > 0
                       THEN <<[w |-> "detections", what |-> det,
                               color |-> GetDetectionColor(ctx.config,
                                                           det.class_id),
                               label |-> GetClassLabel(det.class_id)]>>
                       ELSE <<>>]

\* the turns lo .. hi-1 of the loop of detections_render, in order (the
\* range is halved to keep the evaluation shallow)
RECURSIVE DetectionTurns(_, _, _)
DetectionTurns(ctx, lo, hi) ==
  IF lo >= hi THEN NoDraw
  ELSE IF hi = lo + 1 THEN DetectionDraw(ctx, ctx.detections.items[lo + 1])
  ELSE LET mid == (lo + hi) \div 2
           first == DetectionTurns(ctx, lo, mid)
           rest == DetectionTurns(ctx, mid, hi)
       IN [changed |-> first.changed \/ rest.changed,
           draws |-> first.draws \o rest.draws]

\* the loop of detections_render from item i on
DetectionBoxes(ctx, i) == DetectionTurns(ctx, i, ctx.detections.count)

DetectionsRender(ctx, pb) ==
  IF ~ctx.config.detections THEN NoDraw
  ELSE IF ~ctx.detections.valid THEN NoDraw
  ELSE IF ctx.detections.status # DETECTION_STATUS_OK THEN NoDraw
  ELSE IF ctx.detections.count = 0 THEN NoDraw
  ELSE DetectionBoxes(ctx, 0)

RoiRender(ctx, pb) ==
  IF ~ctx.config.roi THEN NoDraw
  ELSE IF pb.null \/ ~pb.has_cv THEN NoDraw
  ELSE [changed |-> TRUE, draws |-> <<[w |-> "roi", what |-> "focus"]>>]

\* widgets/autofocus_debug.c: sliders, heatmap and history chart of the
\* sharpness data (its history lives in statics of the widget)
AutofocusDebugRender(ctx, pb) ==
  IF ~ctx.config.autofocus_debug THEN NoDraw
  ELSE IF ~ctx.cv_meta.sharpness_valid THEN NoDraw
  ELSE [changed |-> TRUE,
        draws |-> <<[w |-> "autofocus_debug", what |-> ctx.cv_meta.sharpness_level0]>>]

\* ---------------------------------------------------------------------
\* widgets/sam_mask.c.  sam_mask_render returns, besides [changed, draws],
\* the context as it leaves it.
\* ---------------------------------------------------------------------
\* a C byte array kept up to its last non-zero byte
StripZeros(a) ==
  IF a = <<>> THEN a
  ELSE IF a[Len(a)] # 0 THEN a
  ELSE LET nonzero == {i \in 1..Len(a) : a[i] # 0}
       IN IF nonzero = {} THEN <<>>
          ELSE SubSeq(a, 1, CHOOSE i \in nonzero : \A j \in nonzero : j <= i)

\* out_data[pixel_idx++] = value while pixel_idx < end
FillRun(out, pixel_idx, end, value) ==
  StripZeros([i \in 1..Max(Len(out), end) |->
                IF i > pixel_idx /\ i <= end THEN value
                ELSE IF i <= Len(out) THEN out[i] ELSE 0])

\* the product of two uint32_t values in 16-bit limbs, least significant
\* first; the limb top holds what exceeds 32 bits
LimbProduct(width, height) ==
  LET wl == width % 65536
      wh == width \div 65536
      hl == height % 65536
      hh == height \div 65536
      low == wl * hl
      mid == wh * hl + wl * hh + (low \div 65536)
  IN [low |-> low % 65536, high |-> mid % 65536,
      top |-> wh * hh + (mid \div 65536)]

\* size_t total_pixels = (size_t)width * height, with the 32-bit size_t of
\* the WebAssembly build: the product modulo 2^32
TotalPixels(width, height) ==
  LimbProduct(width, height).high * 65536 + LimbProduct(width, height).low

RECURSIVE DecodeRleMask_Unclamped(_, _, _, _, _, _)
DecodeRleMask_Unclamped(rle_data, rle_len, out, total, rle_idx, pixel_idx) ==
  IF rle_idx + 2 < rle_len /\ pixel_idx < total
    THEN LET run_length == rle_data[rle_idx + 1] + 256 * rle_data[rle_idx + 2]
             value == rle_data[rle_idx + 3]
             end == pixel_idx + run_length
         IN DecodeRleMask_Unclamped(rle_data, rle_len,
                                    FillRun(out, pixel_idx, end, value),
                                    total, rle_idx + 3, end)
    ELSE [data |-> out, ok |-> pixel_idx = total,
          rle_idx |-> rle_idx, pixel_idx |-> pixel_idx]

\* decode_rle_mask: (run_length:u16 little-endian, value:u8) triples; the
\* result tells, besides the mask and the return value, where the two
\* indices stopped: the bytes read lie below rle_idx, the bytes written
\* below pixel_idx
RECURSIVE DecodeRleMask(_, _, _, _, _, _)
DecodeRleMask(rle_data, rle_len, out, total, rle_idx, pixel_idx) ==
  IF rle_idx + 2 < rle_len /\ pixel_idx < total
    THEN LET run_length == rle_data[rle_idx + 1] + 256 * rle_data[rle_idx + 2]
             value == rle_data[rle_idx + 3]
             end == Min(pixel_idx + run_length, total)
         IN DecodeRleMask(rle_data, rle_len, FillRun(out, pixel_idx, end, value),
                          total, rle_idx + 3, end)
    ELSE [data |-> out, ok |-> pixel_idx = total,
          rle_idx |-> rle_idx, pixel_idx |-> pixel_idx]

\* defaults of the sam_mask section of the configuration file
BoxThickness == 2
CentroidRadius == 8
LabelFontSize == 14


SamMaskRender_ConsumesData(ctx, pb) ==
  [changed |-> FALSE, draws |-> <<>>,
   ctx |-> [ctx EXCEPT !.sam_tracking.valid = FALSE]]

SamMaskRender(ctx, pb) ==
  LET data == ctx.sam_tracking
      quiet == [changed |-> FALSE, draws |-> <<>>, ctx |-> ctx]
  IN
  IF ~ctx.config.sam_mask THEN quiet
  ELSE IF ~data.valid THEN quiet
  ELSE IF data.status # OSD_SAM_STATUS_OK THEN quiet
  ELSE IF data.state = OSD_SAM_STATE_IDLE THEN quiet
  ELSE
    LET px1 == NdcToPixel(data.bbox_x1, ctx.width)
        py1 == NdcToPixel(data.bbox_y1, ctx.height)
        px2 == NdcToPixel(data.bbox_x2, ctx.width)
        py2 == NdcToPixel(data.bbox_y2, ctx.height)
        bw == px2 - px1
        bh == py2 - py1
        masked == /\ ctx.config.mask_enabled /\ data.mask_rle_len > 0
                  /\ data.mask_width > 0 /\ data.mask_height > 0
                  /\ data.mask_width <= OSD_SAM_MASK_WIDTH
                  /\ data.mask_height <= OSD_SAM_MASK_HEIGHT
        rle == DecodeRleMask(data.mask_rle, data.mask_rle_len, data.mask_data,
                             TotalPixels(data.mask_width, data.mask_height),
                             0, 0)
        ctx1 == IF masked THEN [ctx EXCEPT !.sam_tracking.mask_data = rle.data]
                          ELSE ctx
        cx == NdcToPixel(data.centroid_x, ctx.width)
        cy == NdcToPixel(data.centroid_y, ctx.height)
        box == IF OutlinePixels(px1, py1, bw, bh, BoxThickness,
                                ctx.width, ctx.height) > 0
                 THEN <<[w |-> "sam_mask", what |-> "box"]>> ELSE <<>>
        overlay == IF masked /\ rle.ok /\ rle.data # <<>>
                     THEN <<[w |-> "sam_mask", what |-> rle.data]>> ELSE <<>>
        \* two draw_line of thickness 2.0: a 3x3 stamp along each line
        centroid == IF RectPixels(cx - CentroidRadius - 1, cy - 1,
                                  2 * CentroidRadius + 3, 3,
                                  ctx.width, ctx.height)
                       + RectPixels(cx - 1, cy - CentroidRadius - 1,
                                    3, 2 * CentroidRadius + 3,
                                    ctx.width, ctx.height) > 0
                      THEN <<[w |-> "sam_mask", what |-> "centroid"]>> ELSE <<>>
        label_h == LabelFontSize + 2
        ly == IF py1 - label_h - 1 < 0 THEN py1 + 1 ELSE py1 - label_h - 1
        label == IF RectPixels(px1, ly, LabelWidth(ctx.font_variant_info) + 4,
                               label_h, ctx.width, ctx.height) > 0
                   THEN <<[w |-> "sam_mask", what |-> data.state]>> ELSE <<>>
    IN IF bw <= 0 \/ bh <= 0 THEN quiet
       ELSE [changed |-> TRUE, draws |-> box \o overlay \o centroid \o label,
             ctx |-> ctx1]

\* ---------------------------------------------------------------------
\* render_widgets: the widgets invoked, in order, with the pointer they get
\* ---------------------------------------------------------------------
Invoke_LastResult(acc, name, r) ==
  [changed |-> r.changed,
   draws |-> acc.draws \o r.draws,
   calls |-> Append(acc.calls, name)]

Invoke(acc, name, r) ==
  [changed |-> acc.changed \/ r.changed,
   draws |-> acc.draws \o r.draws,
   calls |-> Append(acc.calls, name)]

RenderWidgets(ctx, pb) ==
  LET a0 == [changed |-> FALSE, draws |-> <<>>, calls |-> <<>>]
      a1 == Invoke(a0, "crosshair", CrosshairRender(ctx, pb))
      a2 == IF ~pb.null THEN Invoke(a1, "timestamp", TimestampRender(ctx, pb)) ELSE a1
      a3 == IF ~pb.null THEN Invoke(a2, "navball", NavballRender(ctx, pb)) ELSE a2
      a4 == Invoke(a3, "variant_info", VariantInfoRender(ctx, pb))
      a5 == Invoke(a4, "sharpness_heatmap", SharpnessHeatmapRender(ctx, pb))
      a6 == Invoke(a5, "detections", DetectionsRender(ctx, pb))
      a7 == IF ~pb.null THEN Invoke(a6, "roi", RoiRender(ctx, pb)) ELSE a6
  IN a7


\* ---------------------------------------------------------------------
\* wasm_osd_init.  The environment decides where it fails: "config" (file
\* missing or unparsable), "font1".."font3" (that font is not configured or
\* does not load), "navball" (navball_init fails), or "ok".
\* ---------------------------------------------------------------------
\* the host makes one more call, MaxCalls at most
HostCalls == calls < MaxCalls /\ calls' = calls + 1

InitOutcomes == {"config", "font1", "font2", "font3", "navball", "ok"}

\* the environments the model's host runs init in: outcome and config file
InitEnvironments ==
  {<<"config", ConfigAll>>, <<"font1", ConfigAll>>, <<"font2", ConfigData>>,
   <<"font3", ConfigAll>>, <<"navball", ConfigAll>>,
   <<"ok", ConfigAll>>, <<"ok", ConfigData>>}

LoadedFont == [valid |-> TRUE]

\* the context when wasm_osd_init returns, for an outcome and a config file
InitContext(ctx, outcome, cfg) ==
  LET c1 == [ctx EXCEPT !.framebuffer = TRUE, !.width = 1920, !.height = 1080,
                        !.needs_render = TRUE, !.frame_count = 0]
      c2 == [c1 EXCEPT !.config = cfg]
      f1 == [c2 EXCEPT !.font_timestamp = LoadedFont]
      f2 == [f1 EXCEPT !.font_speed_indicators = LoadedFont]
      f3 == [f2 EXCEPT !.font_variant_info = LoadedFont]
  IN CASE outcome = "config" -> c1
       [] outcome = "font1" -> [c2 EXCEPT !.font_timestamp = ZeroFont]
       [] outcome = "font2" -> [f1 EXCEPT !.font_speed_indicators = ZeroFont]
       [] outcome = "font3" -> [f2 EXCEPT !.font_variant_info = ZeroFont]
       [] outcome = "navball" -> [f3 EXCEPT !.navball_texture = FALSE]
       [] OTHER -> [f3 EXCEPT !.navball_texture = TRUE,
                              !.proto_size = 0, !.proto_valid = FALSE]

\* the fonts the context holds a handle to (data and info are allocated and
\* freed together: the handle is non-null exactly when valid is set)
HeldFonts(ctx) ==
  (IF ctx.font_timestamp.valid THEN 1 ELSE 0)
  + (IF ctx.font_speed_indicators.valid THEN 1 ELSE 0)
  + (IF ctx.font_variant_info.valid THEN 1 ELSE 0)

\* the heap when wasm_osd_init returns: font_load clears the handle it is
\* given without freeing it and allocates anew, once per font it loads
InitHeap(h, outcome) ==
  [fonts |-> h.fonts + (CASE outcome = "config" -> 0
                          [] outcome = "font1" -> 0
                          [] outcome = "font2" -> 1
                          [] outcome = "font3" -> 2
                          [] OTHER -> 3),
   navball |-> IF outcome = "ok" THEN 1 ELSE h.navball]

\* the heap when wasm_osd_destroy returns: font_free on each handle the
\* context holds, navball_cleanup on the navball resources
DestroyHeap(h, ctx) ==
  [fonts |-> h.fonts - HeldFonts(ctx),
   navball |-> IF ctx.navball_texture THEN 0 ELSE h.navball]

Initialize(env) ==
  /\ LET outcome == env[1]
         cfg == env[2]
     IN
       /\ g_osd_ctx' = InitContext(g_osd_ctx, outcome, cfg)
       /\ g_framebuffer' = IF outcome = "ok" THEN <<>> ELSE g_framebuffer
       /\ ret' = IF outcome = "ok" THEN 0 ELSE -1
       /\ lifecycle' = IF outcome = "ok" THEN "READY" ELSE "UNINIT"
       /\ heap' = InitHeap(heap, outcome)
  /\ call' = [NoCall EXCEPT !.name = "init"]
  /\ trace' = <<>>
  /\ decoded' = NoDecode
  /\ UNCHANGED <<build, unmatched_log_counter, det_log_counter>>

WasmOsdInit == HostCalls /\ \E env \in InitEnvironments : Initialize(env)

\* ---------------------------------------------------------------------
\* wasm_osd_update_state(state_ptr, state_size): region m, size bytes
\* ---------------------------------------------------------------------
UpdateRejected_OffByOne(size) == size > PROTO_BUFFER_SIZE + 1 \/ size = 0

UpdateRejected_NoEmptyCheck(size) == size > PROTO_BUFFER_SIZE

UpdateRejected(size) == size > PROTO_BUFFER_SIZE \/ size = 0

\* (frame_count is a uint32_t; its wrap at 2^32 lies beyond MaxCalls)
UpdateContext(ctx, m, size) ==
  [ctx EXCEPT !.proto_buffer = Memcpy(ctx.proto_buffer, m, size),
              !.proto_size = size,
              !.proto_valid = TRUE,
              !.needs_render = TRUE,
              !.frame_count = ctx.frame_count + 1]

UpdateState(m, size) ==
    /\ call' = [NoCall EXCEPT !.name = "update_state", !.m = m, !.size = size,
                              !.repeat = /\ ~UpdateRejected(size)
                                         /\ call.name = "render" /\ trace # <<>>
                                         /\ g_osd_ctx.proto_valid
                                         /\ g_osd_ctx.proto_size = size
                                         /\ g_osd_ctx.proto_buffer[1].m = m
                                         /\ g_osd_ctx.proto_buffer[1].upto >= size]
    /\ IF UpdateRejected(size)
         THEN /\ ret' = -1
              /\ UNCHANGED g_osd_ctx
         ELSE /\ g_osd_ctx' = UpdateContext(g_osd_ctx, m, size)
              /\ ret' = 0
    /\ trace' = <<>>
    /\ decoded' = NoDecode
    /\ UNCHANGED <<build, g_framebuffer, unmatched_log_counter, det_log_counter,
                   lifecycle, heap>>

WasmOsdUpdateState ==
  \E m \in HostMessageIds : \E size \in FittingSizes(m) \cup (IF m = 1 THEN UnfitSizes ELSE {}) :
    HostCalls /\ UpdateState(m, size)

\* ---------------------------------------------------------------------
\* wasm_osd_render
\* ---------------------------------------------------------------------
\* the context after the decode step
AfterDecode(ctx, d) ==
  [ctx EXCEPT !.client_metadata = d.client_metadata,
              !.cv_meta = d.cv_meta,
              !.detections = d.detections]

RenderSkipped_Never(ctx) == FALSE

RenderSkipped(ctx) == ~ctx.needs_render

Render ==
  /\ call' = [NoCall EXCEPT !.name = "render",
                            !.follows_empty = (call.name = "update_state" /\ call.size = 0),
                            !.repeat = (call.name = "update_state" /\ call.repeat)]
  /\ IF RenderSkipped(g_osd_ctx)
       THEN /\ ret' = 0
            /\ trace' = <<>>
            /\ decoded' = NoDecode
            /\ UNCHANGED <<g_osd_ctx, g_framebuffer, unmatched_log_counter,
                           det_log_counter>>
       ELSE LET ran == g_osd_ctx.proto_valid
                d == IF ran
                       THEN DecodeProtoState(build.stream, g_osd_ctx,
                                             unmatched_log_counter, det_log_counter)
                       ELSE Working(g_osd_ctx, unmatched_log_counter, det_log_counter)
                ctx1 == AfterDecode(g_osd_ctx, d)
                pb == IF ran /\ d.status THEN d.pb ELSE NullPbState
                w == RenderWidgets(ctx1, pb)
            IN /\ g_framebuffer' = w.draws
               /\ g_osd_ctx' = [ctx1 EXCEPT !.needs_render = FALSE]
               /\ unmatched_log_counter' = d.unmatched_log_counter
               /\ det_log_counter' = d.det_log_counter
               /\ ret' = IF w.changed THEN 1 ELSE 0
               /\ trace' = <<"clear">> \o (IF ran THEN <<"decode">> ELSE <<>>) \o w.calls
               /\ decoded' = [ran |-> ran, status |-> ran /\ d.status,
                              marked |-> d.marked, warns |-> d.warns]
  /\ UNCHANGED <<build, lifecycle, heap>>

WasmOsdRender == HostCalls /\ Render

\* ---------------------------------------------------------------------
\* wasm_osd_get_framebuffer and wasm_osd_destroy
\* ---------------------------------------------------------------------
\* (the return value is the address of g_framebuffer in linear memory; the
\* model takes 65536, any fixed non-zero offset)
GetFramebuffer ==
  /\ call' = [NoCall EXCEPT !.name = "get_framebuffer"]
  /\ ret' = 65536
  /\ trace' = <<>>
  /\ decoded' = NoDecode
  /\ UNCHANGED <<build, g_osd_ctx, g_framebuffer, unmatched_log_counter,
                 det_log_counter, lifecycle, heap>>

WasmOsdGetFramebuffer == HostCalls /\ GetFramebuffer

DestroyContext_KeepHandles(ctx) == ctx

\* the context when wasm_osd_destroy returns: every handle freed and
\* nulled, then memset(&g_osd_ctx, 0, sizeof(g_osd_ctx))
DestroyContext(ctx) == ZeroCtx

WasmOsdDestroy ==
  /\ HostCalls
  /\ call' = [NoCall EXCEPT !.name = "destroy", !.again = (call.name = "destroy")]
  /\ g_osd_ctx' = DestroyContext(g_osd_ctx)
  /\ heap' = DestroyHeap(heap, g_osd_ctx)
  /\ ret' = 0
  /\ lifecycle' = "DESTROYED"
  /\ trace' = <<>>
  /\ decoded' = NoDecode
  /\ UNCHANGED <<build, g_framebuffer, unmatched_log_counter, det_log_counter>>

Next ==
  \/ WasmOsdInit
  \/ WasmOsdUpdateState
  \/ WasmOsdRender
  \/ WasmOsdGetFramebuffer
  \/ WasmOsdDestroy

Spec == Init /\ [][Next]_vars

\* ---------------------------------------------------------------------
\* A long run of frames: the host initialises a fresh module and then
\* delivers and renders, frame after frame, telemetry whose only opaque
\* payload has an unknown UUID.
\* ---------------------------------------------------------------------
MaxFrames == 301

FreshInit ==
  /\ lifecycle = "UNINIT"
  /\ \E cfg \in {ConfigAll, ConfigData} : Initialize(<<"ok", cfg>>)
  /\ UNCHANGED calls

UnmatchedUpdate ==
  /\ lifecycle = "READY"
  /\ call.name # "update_state"
  /\ g_osd_ctx.frame_count < MaxFrames
  /\ UpdateState(UnmatchedMessage, WireLen(UnmatchedMessage))
  /\ UNCHANGED calls

UnmatchedRender ==
  /\ call.name = "update_state"
  /\ Render
  /\ UNCHANGED calls

NextUnmatched == FreshInit \/ UnmatchedUpdate \/ UnmatchedRender

SpecUnmatched == Init /\ [][NextUnmatched]_vars

\* ---------------------------------------------------------------------
\* Frames of one opaque payload: the host initialises a fresh module and
\* then delivers and renders frames that carry one channel's detections or
\* one client metadata.
\* ---------------------------------------------------------------------
MaxProbes == 2

ProbeUpdate ==
  /\ lifecycle = "READY"
  /\ call.name # "update_state"
  /\ g_osd_ctx.frame_count < MaxProbes
  /\ \E m \in ProbeMessageIds : UpdateState(m, WireLen(m))
  /\ UNCHANGED calls

ProbeRender ==
  /\ call.name = "update_state"
  /\ Render
  /\ UNCHANGED calls

NextProbe == FreshInit \/ ProbeUpdate \/ ProbeRender

SpecProbe == Init /\ [][NextProbe]_vars

\* ---------------------------------------------------------------------
\* The render pass of each widget on its own: the host initialises a
\* module, may ask for the framebuffer, delivers one frame, and the render
\* is followed step by step: the clear and the decode at its top, then the
\* render function of any widget.  SAM tracking is in the context as its
\* decoder left it.
\* ---------------------------------------------------------------------
MaxPasses == 1

\* the four variants of the module: a build fixes the stream and the mode
ModeBuilds == [stream : {"DAY", "THERMAL"}, mode : {"LIVE", "RECORDING"}]

\* get_config_path: the only place of the module the mode is looked at
GetConfigPath(b) ==
  IF b.mode = "LIVE" /\ b.stream = "DAY"
    THEN "build/resources/live_day_config.json"
  ELSE IF b.mode = "LIVE" /\ b.stream = "THERMAL"
    THEN "build/resources/live_thermal_config.json"
  ELSE IF b.mode = "RECORDING" /\ b.stream = "DAY"
    THEN "build/resources/recording_day_config.json"
  ELSE "build/resources/recording_thermal_config.json"

InitPasses ==
  /\ build \in ModeBuilds
  /\ \E sam \in SamTrackingInputs :
       g_osd_ctx = [ZeroCtx EXCEPT !.sam_tracking = sam]
  /\ g_framebuffer = <<>>
  /\ unmatched_log_counter = 0
  /\ det_log_counter = 0
  /\ call = NoCall
  /\ ret = 0
  /\ lifecycle = "UNINIT"
  /\ trace = <<>>
  /\ decoded = NoDecode
  /\ calls = 0
  /\ heap = [fonts |-> 0, navball |-> 0]

PassInit ==
  /\ lifecycle = "UNINIT"
  /\ call.name = "none"
  /\ \E env \in {<<"ok", ConfigAll>>, <<"font1", ConfigAll>>} : Initialize(env)
  /\ UNCHANGED calls

PassGetFramebuffer ==
  /\ call.name = "init"
  /\ GetFramebuffer
  /\ UNCHANGED calls

PassUpdate ==
  /\ call.name \in {"init", "get_framebuffer"}
  /\ \E m \in HostMessageIds \cup {OffFrameMessage} : UpdateState(m, WireLen(m))
  /\ UNCHANGED calls

\* the top of wasm_osd_render: early return, framebuffer clear, decode
RenderTop ==
  /\ call.name = "update_state"
  /\ ~RenderSkipped(g_osd_ctx)
  /\ LET ran == g_osd_ctx.proto_valid
         d == IF ran
                THEN DecodeProtoState(build.stream, g_osd_ctx,
                                      unmatched_log_counter, det_log_counter)
                ELSE Working(g_osd_ctx, unmatched_log_counter, det_log_counter)
     IN /\ g_framebuffer' = <<>>
        /\ g_osd_ctx' = AfterDecode(g_osd_ctx, d)
        /\ unmatched_log_counter' = d.unmatched_log_counter
        /\ det_log_counter' = d.det_log_counter
        /\ decoded' = [ran |-> ran, status |-> ran /\ d.status,
                       marked |-> d.marked, warns |-> d.warns]
  /\ call' = [NoCall EXCEPT !.name = "decode"]
  /\ ret' = 0
  /\ trace' = <<>>
  /\ UNCHANGED <<build, lifecycle, heap, calls>>

\* the pb_state pointer wasm_osd_render hands to the widgets
PassPb ==
  IF decoded.status
    THEN DecodeProtoState(build.stream, g_osd_ctx,
                          unmatched_log_counter, det_log_counter).pb
    ELSE NullPbState

KeepsContext(r, ctx) == [changed |-> r.changed, draws |-> r.draws, ctx |-> ctx]

\* the render function of widget w
WidgetRender(w, ctx, pb) ==
  CASE w = "crosshair" -> KeepsContext(CrosshairRender(ctx, pb), ctx)
    [] w = "timestamp" -> KeepsContext(TimestampRender(ctx, pb), ctx)
    [] w = "navball" -> KeepsContext(NavballRender(ctx, pb), ctx)
    [] w = "variant_info" -> KeepsContext(VariantInfoRender(ctx, pb), ctx)
    [] w = "sharpness_heatmap" -> KeepsContext(SharpnessHeatmapRender(ctx, pb), ctx)
    [] w = "detections" -> KeepsContext(DetectionsRender(ctx, pb), ctx)
    [] w = "roi" -> KeepsContext(RoiRender(ctx, pb), ctx)
    [] w = "autofocus_debug" -> KeepsContext(AutofocusDebugRender(ctx, pb), ctx)
    [] OTHER -> SamMaskRender(ctx, pb)

Widgets == {WidgetNames[i] : i \in 1..Len(WidgetNames)}

WidgetPass ==
  /\ call.name \in {"decode"} \cup Widgets
  /\ Len(trace) < MaxPasses
  /\ \E w \in Widgets :
       LET r == WidgetRender(w, g_osd_ctx, PassPb)
       IN /\ g_framebuffer' = g_framebuffer \o r.draws
          /\ g_osd_ctx' = r.ctx
          /\ ret' = IF r.changed THEN 1 ELSE 0
          /\ trace' = Append(trace, w)
          /\ call' = [NoCall EXCEPT !.name = w]
  /\ UNCHANGED <<build, unmatched_log_counter, det_log_counter, lifecycle,
                 heap, decoded, calls>>

NextPasses ==
  \/ PassInit
  \/ PassGetFramebuffer
  \/ PassUpdate
  \/ RenderTop
  \/ WidgetPass

SpecPasses == InitPasses /\ [][NextPasses]_vars

\* ---------------------------------------------------------------------
\* Properties
\* ---------------------------------------------------------------------
PerFrameCaches == {"client_metadata", "sharpness", "detections", "sam_tracking"}

\* the per-frame caches whose validity flag is set
PerFrameValid(ctx) ==
  {n \in PerFrameCaches :
     CASE n = "client_metadata" -> ctx.client_metadata.valid
       [] n = "sharpness" -> ctx.cv_meta.sharpness_valid
       [] n = "detections" -> ctx.detections.valid
       [] OTHER -> ctx.sam_tracking.valid}

\* the last call was a render that did its work / that ran the decoder
Rendered == call.name = "render" /\ trace # <<>>
RenderDecoded == Rendered /\ decoded.ran

\* the host called within the lifecycle: after a successful init, before destroy
InReady == lifecycle = "READY"

\* C1: at the end of the decode step of a render, a per-frame validity flag
\* (client metadata, sharpness, detections, SAM tracking) is true only if
\* the decode of that same render read the payload and set it: no flag
\* survives from an earlier frame.
C1_FlagsOnlyFromThisFrame ==
  (RenderDecoded /\ InReady) => PerFrameValid(g_osd_ctx) \subseteq decoded.marked

\* C2: a render that finds needs_render set clears the framebuffer, runs
\* the decoder, then invokes the nine widgets in the fixed order, and does
\* nothing else (stated for the renders whose telemetry decodes).
C2_ClearDecodeNineWidgets ==
  (RenderDecoded /\ decoded.status /\ InReady) => trace = <<"clear", "decode">> \o WidgetNames

\* what C3 says a call outside READY leaves alone
TelemetryState(ctx) ==
  <<ctx.proto_buffer, ctx.proto_valid, ctx.needs_render, ctx.frame_count,
    ctx.client_metadata, ctx.cv_meta, ctx.detections, ctx.sam_tracking>>

\* C3: outside READY (before a successful init, after destroy) update_state
\* does not report success, render draws nothing, and neither changes the
\* telemetry buffer, proto_valid, needs_render, frame_count, the decoded
\* caches or the framebuffer.
C3_AcceptedOnlyInReady ==
  [][(lifecycle # "READY" /\ call'.name \in {"update_state", "render"}) =>
       /\ (call'.name = "update_state" => ret' # 0)
       /\ TelemetryState(g_osd_ctx') = TelemetryState(g_osd_ctx)
       /\ g_framebuffer' = g_framebuffer]_vars

\* C4: render clears needs_render; only init and an accepted update_state
\* set it; and a render that finds it clear returns 0 and changes neither
\* the framebuffer nor any module state: the decoder does not run, no widget
\* is invoked, no log counter moves.
C4_RenderOncePerRequest ==
  [][/\ (call'.name = "render" => ~g_osd_ctx'.needs_render)
     /\ ((g_osd_ctx'.needs_render /\ ~g_osd_ctx.needs_render) =>
           (call'.name = "init" \/ (call'.name = "update_state" /\ ret' = 0)))
     /\ ((call'.name = "render" /\ ~g_osd_ctx.needs_render) =>
           /\ ret' = 0
           /\ g_osd_ctx' = g_osd_ctx
           /\ g_framebuffer' = g_framebuffer
           /\ unmatched_log_counter' = unmatched_log_counter
           /\ det_log_counter' = det_log_counter
           /\ trace' = <<>>
           /\ ~decoded'.ran)]_vars

\* a second render with no request in between, on a framebuffer that holds
\* the previous frame
C4_Witness ==
  /\ call.name = "render" /\ ret = 0 /\ trace = <<>>
  /\ lifecycle = "READY" /\ g_framebuffer # <<>>
  /\ ~g_osd_ctx.needs_render

\* the offsets at which a run of equal bytes starts in either buffer or at
\* the end of a copy of n bytes
PieceStarts(buf, buf2, n) ==
  ({0, n} \cup {buf[i].upto : i \in 1..Len(buf)}
          \cup {buf2[i].upto : i \in 1..Len(buf2)})
    \cap 0..(PROTO_BUFFER_SIZE - 1)

\* C5: update_state(ptr, size) with 1 <= size <= 16384 returns 0, copies
\* exactly size bytes from ptr into the telemetry buffer (the bytes beyond
\* stay), sets proto_size to size, sets proto_valid and needs_render, and
\* increases frame_count by exactly 1.
C5_UpdateAccepted ==
  [][(call'.name = "update_state" /\ call'.size >= 1
        /\ call'.size <= PROTO_BUFFER_SIZE) =>
       /\ ret' = 0
       /\ \A i \in PieceStarts(g_osd_ctx.proto_buffer, g_osd_ctx'.proto_buffer,
                               call'.size) :
            ByteAt(g_osd_ctx'.proto_buffer, i) =
              IF i < call'.size THEN call'.m
                                ELSE ByteAt(g_osd_ctx.proto_buffer, i)
       /\ g_osd_ctx'.proto_size = call'.size
       /\ g_osd_ctx'.proto_valid
       /\ g_osd_ctx'.needs_render
       /\ g_osd_ctx'.frame_count = g_osd_ctx.frame_count + 1]_vars

\* an accepted update of a shorter message over a longer one: the tail of
\* the earlier message stays in the buffer
C5_Witness ==
  /\ InReady
  /\ call.name = "update_state" /\ ret = 0
  /\ call.size < PROTO_BUFFER_SIZE
  /\ g_osd_ctx.proto_size = call.size
  /\ g_osd_ctx.frame_count = 2
  /\ ByteAt(g_osd_ctx.proto_buffer, call.size - 1) = call.m
  /\ ByteAt(g_osd_ctx.proto_buffer, call.size) \notin {0, call.m}

\* what C6 says a rejected update_state leaves alone
BufferState(ctx) ==
  <<ctx.proto_buffer, ctx.proto_size, ctx.proto_valid, ctx.needs_render,
    ctx.frame_count>>

\* C6: update_state with size 0 or size > 16384 returns non-zero and leaves
\* the telemetry buffer, proto_size, proto_valid, needs_render and
\* frame_count as they were.
C6_UpdateRefused ==
  [][(call'.name = "update_state"
        /\ (call'.size = 0 \/ call'.size > PROTO_BUFFER_SIZE)) =>
       /\ ret' # 0
       /\ BufferState(g_osd_ctx') = BufferState(g_osd_ctx)]_vars

\* an oversized update refused by a module that holds a rendered frame
C6_Witness ==
  /\ InReady
  /\ call.name = "update_state" /\ call.size > PROTO_BUFFER_SIZE /\ ret # 0
  /\ g_osd_ctx.proto_valid /\ g_osd_ctx.proto_size > 0
  /\ ~g_osd_ctx.needs_render
  /\ g_osd_ctx.frame_count = 1

\* C7: after an init that failed (non-zero return, module left UNINIT)
\* nothing renders: the render called next returns 0 and writes no pixel.
C7_FailedInitRendersNothing ==
  [][(call.name = "init" /\ ret # 0 /\ call'.name = "render") =>
       (lifecycle = "UNINIT" /\ ret' = 0 /\ g_framebuffer' = <<>>)]_vars

\* the widgets that draw without telemetry
TelemetryFreeWidgets == {"crosshair", "variant_info"}

\* C8: when the decode of the outer message fails during a render, no
\* per-frame state is valid for the widgets (sharpness, detections, client
\* metadata, SAM tracking), also when a payload earlier in the buffer had
\* decoded, and only the widgets that need no telemetry write pixels.
C8_OuterFailureNoPerFrameState ==
  (RenderDecoded /\ InReady /\ ~decoded.status) =>
     /\ PerFrameValid(g_osd_ctx) = {}
     /\ \A i \in 1..Len(g_framebuffer) : g_framebuffer[i].w \in TelemetryFreeWidgets

\* the fields of the message the last render decoded
DecodedUnits == BufferUnits(g_osd_ctx.proto_buffer, g_osd_ctx.proto_size)

\* the outer message is whole: every field well-formed and none cut
OuterIntact(units, size) ==
  /\ size = SumLen(units, Len(units))
  /\ \A i \in 1..Len(units) : units[i].k \notin {"corrupt", "badwrap"}

\* the cache a payload type feeds
CacheOf(type) ==
  CASE type = OPAQUE_TYPE_CLIENT_META -> "client_metadata"
    [] type = OPAQUE_TYPE_CV_META -> "sharpness"
    [] type = OPAQUE_TYPE_DETECTIONS -> "detections"
    [] OTHER -> "none"

\* a payload of a known type that is too large or whose inner message does
\* not decode
PayloadFails(stream, u) ==
  /\ u.k = "opaque"
  /\ MatchUuid(stream, u.uuid) # OPAQUE_TYPE_NONE
  /\ (u.psize > PAYLOAD_BUFFER_SIZE \/ ~u.inner.ok)

\* a payload of a known type that fits, decodes and carries data the build
\* accepts
PayloadGood(stream, u) ==
  /\ u.k = "opaque"
  /\ MatchUuid(stream, u.uuid) # OPAQUE_TYPE_NONE
  /\ u.psize > 0 /\ u.psize <= PAYLOAD_BUFFER_SIZE
  /\ u.inner.ok
  /\ (MatchUuid(stream, u.uuid) = OPAQUE_TYPE_CLIENT_META
        => ~ClientMetadataInvalid(u.inner))
  /\ (MatchUuid(stream, u.uuid) = OPAQUE_TYPE_CV_META
        => IF stream = "DAY" THEN u.inner.has_day /\ u.inner.day_valid
                             ELSE u.inner.has_heat /\ u.inner.heat_valid)

C10_EmptyUpdateInvalidatesAll ==
  (call.name = "render" /\ call.follows_empty /\ InReady) =>
     PerFrameValid(g_osd_ctx) = {}

\* C10 as amended: update_state with an empty buffer is refused, and a
\* render called next with no render pending returns 0 and leaves the
\* validity of every optional per-frame field as the earlier frames left it.
C10_EmptyUpdateLeavesFlags ==
  [][(call.name = "update_state" /\ call.size = 0 /\ call'.name = "render") =>
       /\ ret # 0
       /\ (~g_osd_ctx.needs_render =>
             /\ ret' = 0
             /\ PerFrameValid(g_osd_ctx') = PerFrameValid(g_osd_ctx))]_vars

\* a render right after a refused empty update, with per-frame fields of
\* the earlier frame still valid
C10_Witness ==
  /\ InReady
  /\ call.name = "render" /\ call.follows_empty /\ ret = 0
  /\ {"sharpness", "detections"} \subseteq PerFrameValid(g_osd_ctx)

\* the draws of a framebuffer that are not the variant-info panel's
RECURSIVE WithoutPanel(_)
WithoutPanel(fb) ==
  IF fb = <<>> THEN <<>>
  ELSE (IF Head(fb).w = "variant_info" THEN <<>> ELSE <<Head(fb)>>)
       \o WithoutPanel(Tail(fb))

\* a render of the telemetry the previous render decoded, needs_render
\* re-set in between by delivering the same bytes again
RepeatedRender == call.name = "update_state" /\ call.repeat /\ call'.name = "render"

\* C11 as stated: two renders of the same telemetry, with needs_render
\* re-set in between, produce identical framebuffers, independent of
\* frame_count.
C11_SameTelemetrySameFrame ==
  [][RepeatedRender => g_framebuffer' = g_framebuffer]_vars

\* C11 as amended: the two framebuffers are identical except for the
\* variant-info panel, which prints frame_count.
C11_SameFrameButPanel ==
  [][RepeatedRender => WithoutPanel(g_framebuffer') = WithoutPanel(g_framebuffer)]_vars

\* the second render of a full frame: detections and heatmap drawn again,
\* the panel showing the second draw count
C11_Witness ==
  /\ InReady /\ call.name = "render" /\ call.repeat /\ ret = 1
  /\ \E i \in 1..Len(g_framebuffer) : g_framebuffer[i].w = "detections"
  /\ \E i \in 1..Len(g_framebuffer) : g_framebuffer[i].w = "sharpness_heatmap"
  /\ \E i \in 1..Len(g_framebuffer) :
       g_framebuffer[i] = [w |-> "variant_info", what |-> 2]

\* C12: resources are held only between a successful init and destroy:
\* while the module is not READY no font or navball resource is allocated,
\* and every allocation is either still held by the context or was released
\* (none is lost by a failed or a repeated init).
C12_ResourcesOnlyWhileReady ==
  /\ (lifecycle # "READY" => (heap.fonts = 0 /\ heap.navball = 0))
  /\ heap.fonts = HeldFonts(g_osd_ctx)

\* C13: destroy returns 0 and leaves the context zeroed, every font handle
\* null; it frees nothing that is not allocated, and a destroy called again
\* frees nothing and ends in the same state.
C13_DestroyIdempotent ==
  [][call'.name = "destroy" =>
       /\ ret' = 0
       /\ g_osd_ctx' = ZeroCtx
       /\ HeldFonts(g_osd_ctx') = 0
       /\ heap'.fonts >= 0 /\ heap'.navball >= 0
       /\ (call.name = "destroy" =>
             (heap' = heap /\ g_osd_ctx' = g_osd_ctx
              /\ g_framebuffer' = g_framebuffer /\ lifecycle' = lifecycle))]_vars

\* a second destroy of a module that had been initialised and had rendered
C13_Witness ==
  /\ call.name = "destroy" /\ call.again /\ ret = 0
  /\ lifecycle = "DESTROYED"
  /\ g_osd_ctx = ZeroCtx
  /\ g_framebuffer # <<>>
  /\ heap.fonts = 0 /\ heap.navball = 0

\* In the long run of unmatched frames, n is the number of the frame the
\* last render drew.
UnmatchedFrame == IF call.name = "render" THEN g_osd_ctx.frame_count ELSE 0

\* C14 (as stated): with one unmatched payload per frame the counter
\* increments once per frame, no unmatched-UUID line is logged for frames
\* 2..299, and one is logged on frame 300.
C14_LogOnFrame300 ==
  UnmatchedFrame >= 1 =>
    /\ unmatched_log_counter = UnmatchedFrame
    /\ (UnmatchedFrame \in 2..299 => decoded.warns = 0)
    /\ (UnmatchedFrame = 300 => decoded.warns = 1)

\* C14 (amended): with one unmatched payload per frame the counter
\* increments once per frame and the unmatched-UUID line is logged exactly on
\* the frames 1, 301, 601, ...: on frame 1, on none of the frames 2..300,
\* and next on frame 301.
C14_LogOnFrame1And301 ==
  UnmatchedFrame >= 1 =>
    /\ unmatched_log_counter = UnmatchedFrame
    /\ decoded.ran /\ decoded.status
    /\ decoded.warns = (IF UnmatchedFrame % 300 = 1 THEN 1 ELSE 0)

C14_Witness ==
  /\ UnmatchedFrame = 301
  /\ unmatched_log_counter = 301
  /\ decoded.warns = 1

\* the detections UUID of the channel the build is not compiled for
OtherChannelUuid(stream) ==
  IF stream = "DAY" THEN OBJECT_DETECTIONS_HEAT_UUID ELSE OBJECT_DETECTIONS_DAY_UUID

OtherChannelOnly(stream, units) ==
  /\ units # <<>>
  /\ \A i \in 1..Len(units) :
        units[i].k = "opaque" /\ units[i].uuid = OtherChannelUuid(stream)

\* C15: a render whose telemetry carries only detections of the other
\* channel treats the payload as unmatched: the detections cache keeps its
\* count, status and items, the payload does not set the validity flag (it
\* stays as the decoder's reset left it), the detections counter does not
\* move and the unmatched counter does.
C15_OtherChannelUnmatched ==
  [][(call'.name = "render" /\ decoded'.ran
      /\ OtherChannelOnly(build.stream, DecodedUnits')) =>
       /\ g_osd_ctx'.detections = [g_osd_ctx.detections EXCEPT !.valid = FALSE]
       /\ "detections" \notin decoded'.marked
       /\ det_log_counter' = det_log_counter
       /\ unmatched_log_counter' = unmatched_log_counter + Len(DecodedUnits')]_vars

C15_Witness ==
  /\ call.name = "render" /\ decoded.ran /\ decoded.status
  /\ OtherChannelOnly(build.stream, DecodedUnits)
  /\ g_osd_ctx.detections.count = Len(Det2)
  /\ ~g_osd_ctx.detections.valid
  /\ det_log_counter = 1 /\ unmatched_log_counter = 1

\* the range the validation lets through
ClientMetadataInRange(md) ==
  /\ md.canvas_width_px \in 1..40960
  /\ md.canvas_height_px \in 1..40960
  /\ ~md.device_pixel_ratio.nan
  /\ md.device_pixel_ratio.v > 0 /\ md.device_pixel_ratio.v <= 10

\* the last render decoded a frame of one client metadata out of range
MetadataOutOfRange ==
  /\ call.name = "render" /\ decoded.ran
  /\ Len(DecodedUnits) = 1
  /\ DecodedUnits[1].uuid = OSD_CLIENT_METADATA_UUID
  /\ LET in == DecodedUnits[1].inner
     IN ~ClientMetadataInRange([canvas_width_px |-> in.w, canvas_height_px |-> in.h,
                                device_pixel_ratio |-> in.dpr])

\* C16: whenever the client-metadata cache is valid its canvas width and
\* height are in [1, 40960] and its device-pixel-ratio is in (0, 10] and not
\* NaN, and so is what osd_state_get_client_metadata hands out; a metadata
\* outside these ranges is dropped: it neither marks the cache valid nor
\* becomes the cached value.
C16_ValidMetadataInRange ==
  /\ (g_osd_ctx.client_metadata.valid =>
        /\ ClientMetadataInRange(g_osd_ctx.client_metadata)
        /\ ClientMetadataInRange(OsdStateGetClientMetadata(g_osd_ctx)))
  /\ (MetadataOutOfRange =>
        /\ "client_metadata" \notin decoded.marked
        /\ LET in == DecodedUnits[1].inner
           IN <<g_osd_ctx.client_metadata.canvas_width_px,
                g_osd_ctx.client_metadata.canvas_height_px,
                g_osd_ctx.client_metadata.device_pixel_ratio>> # <<in.w, in.h, in.dpr>>)

C16_Witness ==
  /\ MetadataOutOfRange
  /\ DecodedUnits[1].inner.w = 40961
  /\ g_osd_ctx.client_metadata.valid
  /\ g_osd_ctx.client_metadata.canvas_width_px = 40960

\* the per-frame decoded caches of a context
DecodedCaches(ctx) ==
  <<ctx.client_metadata, ctx.cv_meta, ctx.detections, ctx.sam_tracking>>

ReportedChange ==
  {i \in 1..Len(trace) :
     trace[i] \in Widgets /\ WidgetRender(trace[i], g_osd_ctx, PassPb).changed}

\* C18: a render that runs returns 1 if at least one widget it invoked
\* reported a change and 0 otherwise, and no other value.
C18_RenderReturnsChanged ==
  Rendered =>
    /\ ret \in {0, 1}
    /\ (ret = 1 <=> ReportedChange # {})

C18_Witness ==
  /\ Rendered /\ InReady /\ ret = 1
  /\ ReportedChange # {}
  /\ Len(trace) \notin ReportedChange
  /\ \E i \in 1..Len(trace) : trace[i] \in Widgets /\ i \notin ReportedChange

\* the last call was a render that ran in READY with no telemetry accepted
\* since the init (a successful init clears proto_valid, only an accepted
\* update_state sets it, and the decoder runs only when it is set)
RenderedWithoutTelemetry ==
  Rendered /\ InReady /\ ~g_osd_ctx.proto_valid /\ ~decoded.ran

\* C19: in READY with no telemetry accepted since init, render writes
\* pixels only for the crosshair and the variant-info panel, each if
\* enabled, and returns 1 when at least one of the two is enabled.
C19_OnlyTelemetryFreeWidgetsDraw ==
  RenderedWithoutTelemetry =>
    /\ \A i \in 1..Len(g_framebuffer) :
         /\ g_framebuffer[i].w \in TelemetryFreeWidgets
         /\ g_osd_ctx.config[g_framebuffer[i].w]
    /\ (g_osd_ctx.config.crosshair \/ g_osd_ctx.config.variant_info) => ret = 1

\* C20: the render of a widget returns true iff it wrote pixels: when it
\* returns false the framebuffer is as it was before the call, and when it
\* returns true at least one pixel was written.
C20_TrueIffPixelsWritten ==
  [][call'.name \in Widgets =>
       /\ (ret' = 0 => g_framebuffer' = g_framebuffer)
       /\ (ret' = 1 => Len(g_framebuffer') > Len(g_framebuffer))]_vars

\* the draws of the detections widget in the framebuffer
DetectionDraws ==
  {i \in 1..Len(g_framebuffer) : g_framebuffer[i].w = "detections"}

\* the cached detections the widget may read
CachedDetections ==
  {g_osd_ctx.detections.items[i] : i \in 1..g_osd_ctx.detections.count}

\* C21: after a render, a detection box is in the framebuffer only if the
\* detections cache is valid, its status is OK and the item is a cached one
\* of confidence >= min_confidence; nothing is drawn when status is not OK.
C21_BoxesOnlyForConfidentOk ==
  Rendered =>
    \A i \in DetectionDraws :
      /\ g_osd_ctx.config.detections
      /\ g_osd_ctx.detections.valid
      /\ g_osd_ctx.detections.status = DETECTION_STATUS_OK
      /\ g_framebuffer[i].what \in CachedDetections
      /\ g_framebuffer[i].what.confidence >= g_osd_ctx.config.min_confidence

\* a render drew the confident one of two cached detections, not the other
C21_Witness ==
  /\ Rendered /\ InReady
  /\ g_osd_ctx.detections.valid /\ g_osd_ctx.detections.count = 2
  /\ Cardinality(DetectionDraws) = 1
  /\ \E d \in CachedDetections : d.confidence < g_osd_ctx.config.min_confidence

\* the heatmap draws in the framebuffer
HeatmapDraws ==
  {i \in 1..Len(g_framebuffer) : g_framebuffer[i].w = "sharpness_heatmap"}

\* the colour of the ramp for a value in [0, 1] (hundredths): blue at 0,
\* green at one half, red at 1, alpha 200
Ramp(v) ==
  IF v < 50
    THEN [a |-> 200, r |-> 0, g |-> (510 * v) \div 100,
          b |-> (25500 - 510 * v) \div 100]
    ELSE [a |-> 200, r |-> (510 * v - 25500) \div 100,
          g |-> (51000 - 510 * v) \div 100, b |-> 0]

\* C22 as stated: every cell of a drawn heatmap has the ramp colour of its
\* value normalized across the grid, so the least cell of a grid that is not
\* flat is at the blue end and the greatest at the red end.
C22_ColourFromNormalizedValue ==
  \A i \in HeatmapDraws :
    \A k \in 1..Len(g_framebuffer[i].what) :
      g_framebuffer[i].what[k] =
        Ramp(NormalizedAcrossGrid(HeatmapCells(g_osd_ctx),
                                  HeatmapCells(g_osd_ctx)[k]))

\* C22 (amended): every cell of a drawn heatmap has the ramp colour of its
\* own value clamped to [0, 1], whatever the other cells hold; a cell at 0.80
\* is red-dominant and a cell at 0.30 is green-dominant with some blue.
C22_ColourFromOwnValue ==
  \A i \in HeatmapDraws :
    /\ Len(g_framebuffer[i].what) = Len(HeatmapCells(g_osd_ctx))
    /\ \A k \in 1..Len(g_framebuffer[i].what) :
         LET v == HeatmapCells(g_osd_ctx)[k]
             c == g_framebuffer[i].what[k]
         IN /\ c = Ramp(IF v < 0 THEN 0 ELSE IF v > 100 THEN 100 ELSE v)
            /\ v = 80 => c.r > c.g /\ c.b = 0
            /\ v = 30 => c.g > c.b /\ c.b > 0 /\ c.r = 0

\* a heatmap of a grid holding 0.30 and 0.80 has been drawn
C22_Witness ==
  \E i \in HeatmapDraws :
    /\ Len(g_framebuffer[i].what) = 2
    /\ HeatmapCells(g_osd_ctx) = <<30, 80>>

\* the module was built with mode LIVE
LiveBuild ==
  GetConfigPath(build) \in {"build/resources/live_day_config.json",
                            "build/resources/live_thermal_config.json"}

\* C23: in a module built with mode LIVE no draw of the timestamp widget
\* ever reaches the framebuffer, whatever the configuration's enable flag and
\* whatever time the telemetry carries.
C23_LiveNeverDrawsTimestamp ==
  LiveBuild =>
    \A i \in 1..Len(g_framebuffer) : g_framebuffer[i].w # "timestamp"

\* ---------------------------------------------------------------------
\* The pixel plane: framebuffer.c and the rectangle primitives on a plane
\* of PlaneWidth x PlaneHeight pixels.  g_framebuffer holds the framebuffer_t
\* (data indexed from 0 in row-major order), call the operation applied last
\* and the plane before it, ret the colour get_pixel returned.
\* ---------------------------------------------------------------------
PlaneWidth == 3
PlaneHeight == 2

COLOR_TRANSPARENT == ColorMakeArgb(0, 0, 0, 0)
COLOR_RED == ColorMakeArgb(255, 255, 0, 0)
\* the half-transparent blue of the example of blending.h
SemiTransparentBlue == ColorMakeArgb(128, 0, 0, 255)

PlaneColours == {COLOR_TRANSPARENT, COLOR_RED, SemiTransparentBlue}

\* coordinates around and inside the plane
PlaneXs == -1..PlaneWidth
PlaneYs == -1..PlaneHeight
\* widths and heights of rectangles, non-positive ones included
RectWidths == -1..PlaneWidth
RectHeights == -1..(PlaneHeight + 1)
\* stroke widths in tenths of a pixel
Thicknesses == {5, 10, 20}

\* blend_argb
BlendArgb(bg, fg) ==
  IF fg.a = 0 THEN bg
  ELSE IF fg.a = 255 THEN fg
  ELSE LET inv_alpha == 255 - fg.a
       IN [a |-> fg.a + ((bg.a * inv_alpha) \div 255),
           r |-> ((fg.r * fg.a) + (bg.r * inv_alpha)) \div 255,
           g |-> ((fg.g * fg.a) + (bg.g * inv_alpha)) \div 255,
           b |-> ((fg.b * fg.a) + (bg.b * inv_alpha)) \div 255]

\* framebuffer_init over a zeroed buffer; stores counts the writes of the
\* operation in progress, overrun tells an access outside data
FramebufferInit(width, height) ==
  [data |-> [i \in 0..(width * height - 1) |-> COLOR_TRANSPARENT],
   width |-> width, height |-> height, stores |-> 0, overrun |-> FALSE]

\* framebuffer_clear
FramebufferClear(fb, color) ==
  [fb EXCEPT !.data = [i \in DOMAIN fb.data |-> color], !.stores = 0]

FramebufferInBounds_NoLowerBound(fb, x, y) == x < fb.width /\ y < fb.height

\* framebuffer_in_bounds
FramebufferInBounds(fb, x, y) ==
  x >= 0 /\ x < fb.width /\ y >= 0 /\ y < fb.height

\* uint32_t idx = y * fb->width + x (a negative value stands for its wrap
\* around 2^32, which lies beyond the buffer all the same)
PixelIndex(fb, x, y) == y * fb.width + x

\* fb->data[idx] = color
StorePixel(fb, idx, color) ==
  IF idx \in DOMAIN fb.data
    THEN [fb EXCEPT !.data[idx] = color, !.stores = @ + 1]
    ELSE [fb EXCEPT !.overrun = TRUE, !.stores = @ + 1]

\* framebuffer_get_pixel: the colours it may return
FramebufferGetPixel(fb, x, y) ==
  IF ~FramebufferInBounds(fb, x, y) THEN {COLOR_TRANSPARENT}
  ELSE IF PixelIndex(fb, x, y) \in DOMAIN fb.data
    THEN {fb.data[PixelIndex(fb, x, y)]}
    ELSE PlaneColours

\* framebuffer_set_pixel
FramebufferSetPixel(fb, x, y, color) ==
  IF ~FramebufferInBounds(fb, x, y) THEN fb
  ELSE StorePixel(fb, PixelIndex(fb, x, y), color)

\* framebuffer_blend_pixel, which draw_pixel forwards to
FramebufferBlendPixel(fb, x, y, color) ==
  IF ~FramebufferInBounds(fb, x, y) THEN fb
  ELSE IF PixelIndex(fb, x, y) \in DOMAIN fb.data
    THEN StorePixel(fb, PixelIndex(fb, x, y),
                    BlendArgb(fb.data[PixelIndex(fb, x, y)], color))
    ELSE StorePixel(fb, PixelIndex(fb, x, y), color)

\* the pixels the two loops of draw_rect_filled visit, row by row
RectCells(x, y, w, h) ==
  IF w <= 0 \/ h <= 0 THEN <<>>
  ELSE [k \in 1..(w * h) |-> <<x + ((k - 1) % w), y + ((k - 1) \div w)>>]

RECURSIVE DrawPixels(_, _, _)
DrawPixels(fb, cells, color) ==
  IF cells = <<>> THEN fb
  ELSE DrawPixels(FramebufferBlendPixel(fb, cells[1][1], cells[1][2], color),
                  Tail(cells), color)

\* draw_rect_filled
DrawRectFilled(fb, x, y, w, h, color) ==
  DrawPixels(fb, RectCells(x, y, w, h), color)

\* draw_rect_outline: four filled bars, t = (int)thickness
DrawRectOutline(fb, x, y, w, h, color, thickness) ==
  LET t == thickness \div 10
      top == DrawRectFilled(fb, x, y, w, t, color)
      bottom == DrawRectFilled(top, x, y + h - t, w, t, color)
      left == DrawRectFilled(bottom, x, y + t, t, h - 2 * t, color)
  IN DrawRectFilled(left, x + w - t, y + t, t, h - 2 * t, color)

NoPixelCall ==
  [name |-> "none", x |-> 0, y |-> 0, w |-> 0, h |-> 0,
   color |-> COLOR_TRANSPARENT, thickness |-> 0,
   before |-> FramebufferInit(PlaneWidth, PlaneHeight).data]

InitPixels ==
  /\ build \in Builds
  /\ g_osd_ctx = ZeroCtx
  /\ g_framebuffer = FramebufferInit(PlaneWidth, PlaneHeight)
  /\ unmatched_log_counter = 0
  /\ det_log_counter = 0
  /\ call = NoPixelCall
  /\ ret = COLOR_TRANSPARENT
  /\ lifecycle = "UNINIT"
  /\ trace = <<>>
  /\ decoded = NoDecode
  /\ calls = 0
  /\ heap = [fonts |-> 0, navball |-> 0]

PixelsUnchanged ==
  UNCHANGED <<build, g_osd_ctx, unmatched_log_counter, det_log_counter,
              lifecycle, trace, decoded, calls, heap>>

\* the plane as an operation finds it
Fresh == [g_framebuffer EXCEPT !.stores = 0]

\* framebuffer_clear, after which the next operation is applied
PlaneClear ==
  /\ call.name # "none"
  /\ \E color \in PlaneColours :
       g_framebuffer' = FramebufferClear(g_framebuffer, color)
  /\ call' = [NoPixelCall EXCEPT !.before = g_framebuffer'.data]
  /\ ret' = COLOR_TRANSPARENT
  /\ PixelsUnchanged

PlaneSetPixel ==
  /\ call.name = "none"
  /\ \E x \in PlaneXs, y \in PlaneYs, color \in PlaneColours :
       /\ g_framebuffer' = FramebufferSetPixel(Fresh, x, y, color)
       /\ call' = [NoPixelCall EXCEPT !.name = "set_pixel", !.x = x, !.y = y,
                                      !.color = color,
                                      !.before = g_framebuffer.data]
  /\ ret' = COLOR_TRANSPARENT
  /\ PixelsUnchanged

PlaneBlendPixel ==
  /\ call.name = "none"
  /\ \E x \in PlaneXs, y \in PlaneYs, color \in PlaneColours :
       /\ g_framebuffer' = FramebufferBlendPixel(Fresh, x, y, color)
       /\ call' = [NoPixelCall EXCEPT !.name = "blend_pixel", !.x = x, !.y = y,
                                      !.color = color,
                                      !.before = g_framebuffer.data]
  /\ ret' = COLOR_TRANSPARENT
  /\ PixelsUnchanged

PlaneGetPixel ==
  /\ call.name = "none"
  /\ \E x \in PlaneXs, y \in PlaneYs :
       /\ ret' \in FramebufferGetPixel(g_framebuffer, x, y)
       /\ g_framebuffer' =
            IF FramebufferInBounds(g_framebuffer, x, y)
               /\ PixelIndex(g_framebuffer, x, y) \notin DOMAIN g_framebuffer.data
              THEN [Fresh EXCEPT !.overrun = TRUE]
              ELSE Fresh
       /\ call' = [NoPixelCall EXCEPT !.name = "get_pixel", !.x = x, !.y = y,
                                      !.before = g_framebuffer.data]
  /\ PixelsUnchanged

PlaneRectFilled ==
  /\ call.name = "none"
  /\ \E x \in PlaneXs, y \in PlaneYs, w \in RectWidths, h \in RectHeights,
        color \in PlaneColours :
       /\ g_framebuffer' = DrawRectFilled(Fresh, x, y, w, h, color)
       /\ call' = [NoPixelCall EXCEPT !.name = "rect_filled", !.x = x, !.y = y,
                                      !.w = w, !.h = h, !.color = color,
                                      !.before = g_framebuffer.data]
  /\ ret' = COLOR_TRANSPARENT
  /\ PixelsUnchanged

PlaneRectOutline ==
  /\ call.name = "none"
  /\ \E x \in PlaneXs, y \in PlaneYs, w \in RectWidths, h \in RectHeights,
        color \in PlaneColours, thickness \in Thicknesses :
       /\ g_framebuffer' = DrawRectOutline(Fresh, x, y, w, h, color, thickness)
       /\ call' = [NoPixelCall EXCEPT !.name = "rect_outline", !.x = x, !.y = y,
                                      !.w = w, !.h = h, !.color = color,
                                      !.thickness = thickness,
                                      !.before = g_framebuffer.data]
  /\ ret' = COLOR_TRANSPARENT
  /\ PixelsUnchanged

NextPixels ==
  \/ PlaneClear
  \/ PlaneSetPixel
  \/ PlaneBlendPixel
  \/ PlaneGetPixel
  \/ PlaneRectFilled
  \/ PlaneRectOutline

SpecPixels == InitPixels /\ [][NextPixels]_vars

\* a rectangle primitive was given a width or a height that is not positive
DegenerateRect ==
  /\ call.name \in {"rect_filled", "rect_outline"}
  /\ (call.w <= 0 \/ call.h <= 0)

\* C24: a filled or an outlined rectangle with w <= 0 or h <= 0 writes no
\* pixel, for every position, colour and thickness.
C24_DegenerateRectWritesNothing ==
  DegenerateRect =>
    g_framebuffer.stores = 0 /\ g_framebuffer.data = call.before

\* (x, y) names a pixel of the W x H plane
OnPlane(x, y) == x >= 0 /\ x < PlaneWidth /\ y >= 0 /\ y < PlaneHeight

\* C25: after set_pixel(x, y, c) with (x, y) in bounds, get_pixel(x, y) is c
\* and no other pixel changed; with (x, y) out of bounds the framebuffer is
\* unchanged; an out-of-bounds get_pixel returns transparent black; no set,
\* blend or rectangle ever accesses memory outside the W x H plane.
C25_PixelAccessInBounds ==
  /\ DOMAIN g_framebuffer.data = 0..(PlaneWidth * PlaneHeight - 1)
  /\ ~g_framebuffer.overrun
  /\ (call.name = "set_pixel" /\ OnPlane(call.x, call.y)) =>
       /\ g_framebuffer.data[call.y * PlaneWidth + call.x] = call.color
       /\ FramebufferGetPixel(g_framebuffer, call.x, call.y) = {call.color}
       /\ \A i \in DOMAIN g_framebuffer.data :
            i # call.y * PlaneWidth + call.x =>
              g_framebuffer.data[i] = call.before[i]
  /\ (call.name \in {"set_pixel", "blend_pixel"} /\ ~OnPlane(call.x, call.y)) =>
       g_framebuffer.data = call.before /\ g_framebuffer.stores = 0
  /\ (call.name = "blend_pixel" /\ OnPlane(call.x, call.y)) =>
       \A i \in DOMAIN g_framebuffer.data :
         i # call.y * PlaneWidth + call.x =>
           g_framebuffer.data[i] = call.before[i]
  /\ (call.name = "get_pixel") =>
       /\ g_framebuffer.data = call.before
       /\ ret = IF OnPlane(call.x, call.y)
                  THEN call.before[call.y * PlaneWidth + call.x]
                  ELSE COLOR_TRANSPARENT

\* set_pixel changed a pixel of the plane: the last one of the last row
C25_Witness ==
  /\ call.name = "set_pixel"
  /\ call.x = PlaneWidth - 1 /\ call.y = PlaneHeight - 1
  /\ g_framebuffer.data # call.before
  /\ g_framebuffer.data[PlaneWidth * PlaneHeight - 1] = COLOR_RED

\* ---------------------------------------------------------------------
\* The sharpness history of widgets/autofocus_debug.c.  heap holds the
\* statics of the widget, g_framebuffer the draws of the pass, call the pass
\* made last and the statics before it, calls the number of passes.
\* HistorySize stands for HISTORY_SIZE (900 in the source): the code of the
\* ring buffer depends on it only through the modulus and the full test.
\* ---------------------------------------------------------------------
HistorySize == 2
MaxSamples == 4

HISTORY_WINDOW_US == 30000000
\* the jitter history_add_sample tolerates when time runs backwards
MaxBackwardsUs == 100000

\* monotonic times of the passes, in microseconds
NowTimes == {0, 100000, 300000, 30200000}
\* global scores of the sharpness data (hundredths)
GlobalScores == {Float(40), Float(120), NaN}

ZeroSample == [sharpness |-> 0, smoothed |-> 0, time_us |-> 0, valid |-> 0]

ZeroHistory ==
  [s_history |-> [i \in 0..(HistorySize - 1) |-> ZeroSample],
   s_history_count |-> 0, s_history_head |-> 0, s_history_tail |-> 0,
   s_last_time_us |-> 0, s_ema_value |-> 0]

\* the validation of the sharpness: NaN becomes 0, the rest is clamped
ClampSharpness(score) ==
  IF score.nan THEN 0
  ELSE IF score.v < 0 THEN 0
  ELSE IF score.v > 100 THEN 100
  ELSE score.v

\* time ran backwards by more than the tolerated jitter
TimeWentBackwards(st, time_us) ==
  time_us < st.s_last_time_us /\ (st.s_last_time_us - time_us) > MaxBackwardsUs

\* EMA_ALPHA * sharpness + (1 - EMA_ALPHA) * s_ema_value, to the hundredth
EmaStep(ema, sharpness) == (sharpness + 9 * ema) \div 10

HistoryAddSample_KeepHead(st, score, time_us) ==
  LET sharpness == ClampSharpness(score)
      r == IF TimeWentBackwards(st, time_us)
             THEN [st EXCEPT !.s_history_count = 0, !.s_history_head = 0,
                             !.s_history_tail = 0, !.s_ema_value = sharpness]
             ELSE st
      ema == IF r.s_history_count = 0 THEN sharpness
             ELSE EmaStep(r.s_ema_value, sharpness)
      w == [r EXCEPT !.s_last_time_us = time_us,
                     !.s_ema_value = ema,
                     !.s_history[r.s_history_tail] =
                        [sharpness |-> sharpness, smoothed |-> ema,
                         time_us |-> time_us, valid |-> 1],
                     !.s_history_tail = (r.s_history_tail + 1) % HistorySize]
  IN IF r.s_history_count = HistorySize
       THEN w
       ELSE [w EXCEPT !.s_history_count = @ + 1]

\* history_add_sample
HistoryAddSample(st, score, time_us) ==
  LET sharpness == ClampSharpness(score)
      r == IF TimeWentBackwards(st, time_us)
             THEN [st EXCEPT !.s_history_count = 0, !.s_history_head = 0,
                             !.s_history_tail = 0, !.s_ema_value = sharpness]
             ELSE st
      ema == IF r.s_history_count = 0 THEN sharpness
             ELSE EmaStep(r.s_ema_value, sharpness)
      w == [r EXCEPT !.s_last_time_us = time_us,
                     !.s_ema_value = ema,
                     !.s_history[r.s_history_tail] =
                        [sharpness |-> sharpness, smoothed |-> ema,
                         time_us |-> time_us, valid |-> 1],
                     !.s_history_tail = (r.s_history_tail + 1) % HistorySize]
  IN IF r.s_history_count = HistorySize
       THEN [w EXCEPT !.s_history_head = (r.s_history_head + 1) % HistorySize]
       ELSE [w EXCEPT !.s_history_count = @ + 1]

\* the start of the window render_history_chart plots
WindowStart(now_us) ==
  IF now_us > HISTORY_WINDOW_US THEN now_us - HISTORY_WINDOW_US ELSE 0

\* the samples the ring buffer holds, oldest first
HeldSamples(st) ==
  [n \in 1..st.s_history_count |->
     st.s_history[(st.s_history_head + n - 1) % HistorySize]]

RECURSIVE VisibleFrom(_, _, _)
VisibleFrom(held, n, window_start) ==
  IF n > Len(held) THEN <<>>
  ELSE IF held[n].time_us >= window_start /\ held[n].valid # 0
    THEN <<held[n]>> \o VisibleFrom(held, n + 1, window_start)
    ELSE VisibleFrom(held, n + 1, window_start)

RenderHistoryChart_WholeBuffer(st, now_us) ==
  <<[w |-> "autofocus_debug", what |-> "chart"]>>
  \o [n \in 1..Len(HeldSamples(st)) |->
        [w |-> "autofocus_debug", what |-> HeldSamples(st)[n]]]

\* render_history_chart, pass 1: the border of the chart, then the samples
\* of the window in time order
RenderHistoryChart(st, now_us) ==
  LET vis == VisibleFrom(HeldSamples(st), 1, WindowStart(now_us))
  IN <<[w |-> "autofocus_debug", what |-> "chart"]>>
     \o [n \in 1..Len(vis) |-> [w |-> "autofocus_debug", what |-> vis[n]]]

NoHistoryCall ==
  [name |-> "none", score |-> NaN, now_us |-> 0, valid |-> FALSE,
   before |-> ZeroHistory]

InitHistory ==
  /\ build \in Builds
  /\ g_osd_ctx = ZeroCtx
  /\ g_framebuffer = <<>>
  /\ unmatched_log_counter = 0
  /\ det_log_counter = 0
  /\ call = NoHistoryCall
  /\ ret = 0
  /\ lifecycle = "UNINIT"
  /\ trace = <<>>
  /\ decoded = NoDecode
  /\ calls = 0
  /\ heap = ZeroHistory

\* autofocus_debug_render of an enabled widget: nothing happens without valid
\* sharpness data, else the score joins the history and the chart is drawn
AutofocusDebugPass ==
  /\ calls < MaxSamples
  /\ \E valid \in BOOLEAN, score \in GlobalScores, now_us \in NowTimes :
       /\ call' = [name |-> "autofocus_debug", score |-> score,
                   now_us |-> now_us, valid |-> valid, before |-> heap]
       /\ heap' = IF valid THEN HistoryAddSample(heap, score, now_us) ELSE heap
       /\ g_framebuffer' =
            IF valid
              THEN RenderHistoryChart(HistoryAddSample(heap, score, now_us),
                                      now_us)
              ELSE <<>>
       /\ ret' = IF valid THEN 1 ELSE 0
  /\ calls' = calls + 1
  /\ UNCHANGED <<build, g_osd_ctx, unmatched_log_counter, det_log_counter,
                 lifecycle, trace, decoded>>

NextHistory == AutofocusDebugPass

SpecHistory == InitHistory /\ [][NextHistory]_vars

\* a pass that added its sample to the history
SampleAdded == call.name = "autofocus_debug" /\ call.valid

\* the samples the chart of the pass plotted
Plotted ==
  {g_framebuffer[i].what : i \in 2..Len(g_framebuffer)}

\* the samples the ring buffer holds
Held == {HeldSamples(heap)[n] : n \in 1..heap.s_history_count}

\* C26 as stated: after a pass at time now the ring buffer holds no sample
\* older than now minus 30 s.
C26_NoOldSampleHeld ==
  SampleAdded =>
    \A sample \in Held : sample.time_us >= WindowStart(call.now_us)

\* C26 (amended): after a pass at time now the chart plots exactly the held
\* samples that are not older than now minus 30 s; older ones stay in the
\* ring buffer until they are overwritten or the history is reset.
C26_NoOldSamplePlotted ==
  SampleAdded =>
    Plotted = {sample \in Held : sample.time_us >= WindowStart(call.now_us)}

\* a pass left a sample older than the window in the ring buffer and out of
\* the plot
C26_Witness ==
  /\ SampleAdded
  /\ \E sample \in Held :
       sample.time_us < WindowStart(call.now_us) /\ sample \notin Plotted
  /\ Plotted # {}

\* the decoded message carried more detections than the cache holds
OverfullPayload ==
  \E i \in 1..Len(DecodedUnits) :
    /\ DecodedUnits[i].k = "opaque"
    /\ MatchUuid(build.stream, DecodedUnits[i].uuid) = OPAQUE_TYPE_DETECTIONS
    /\ Len(DecodedUnits[i].inner.dets) > OSD_MAX_DETECTIONS

\* C27: the detections cache never counts more than 64 items and nothing is
\* stored past items[63], however many detections a payload carries; the
\* boxes of a render are among items[0 .. count-1], one per item at most.
C27_CountWithinCapacity ==
  /\ g_osd_ctx.detections.count \in 0..64
  /\ Len(g_osd_ctx.detections.items) <= 64
  /\ g_osd_ctx.detections.count <= Len(g_osd_ctx.detections.items)
  /\ Rendered =>
       /\ Cardinality(DetectionDraws) <= g_osd_ctx.detections.count
       /\ \A i \in DetectionDraws :
            \E k \in 1..g_osd_ctx.detections.count :
              g_framebuffer[i].what = g_osd_ctx.detections.items[k]

\* a payload of 65 detections was decoded and rendered: 64 are cached, the
\* 65th is not, and 64 boxes are drawn
C27_Witness ==
  /\ Rendered /\ InReady /\ OverfullPayload
  /\ g_osd_ctx.detections.valid
  /\ g_osd_ctx.detections.count = 64
  /\ ManyDetections[65] \notin CachedDetections
  /\ Cardinality(DetectionDraws) = 64

\* C28: for every class_id of a drawn detection, negative ones and those of
\* 80 or more included, the index read from the 8-entry colour palette is in
\* [0, 8) and the index read from the 80-entry label table is in [0, 80).
C28_LookupsInsideTables ==
  \A i \in DetectionDraws :
    /\ g_framebuffer[i].color.per_class =>
         g_framebuffer[i].color.index \in 0..7
    /\ g_framebuffer[i].label.in_table =>
         g_framebuffer[i].label.index \in 0..79

\* the pass added its sample to a full ring buffer that was not reset
AddedToFull ==
  /\ SampleAdded
  /\ call.before.s_history_count = HistorySize
  /\ ~TimeWentBackwards(call.before, call.now_us)

\* C29: after any sequence of insertions, resets included, count is in
\* [0, HISTORY_SIZE], head and tail are in [0, HISTORY_SIZE) and
\* tail = (head + count) mod HISTORY_SIZE; a sample added to a full buffer
\* replaces exactly the oldest one, the slot at head, and head moves on.
C29_RingBufferWellFormed ==
  /\ heap.s_history_count \in 0..HistorySize
  /\ heap.s_history_head \in 0..(HistorySize - 1)
  /\ heap.s_history_tail \in 0..(HistorySize - 1)
  /\ heap.s_history_tail =
       (heap.s_history_head + heap.s_history_count) % HistorySize
  /\ DOMAIN heap.s_history = 0..(HistorySize - 1)
  /\ AddedToFull =>
       /\ heap.s_history_count = HistorySize
       /\ heap.s_history_head =
            (call.before.s_history_head + 1) % HistorySize
       /\ heap.s_history[call.before.s_history_head].time_us = call.now_us
       /\ heap.s_history[call.before.s_history_head].valid = 1
       /\ \A i \in 0..(HistorySize - 1) :
            i # call.before.s_history_head =>
              heap.s_history[i] = call.before.s_history[i]
       /\ HeldSamples(heap) =
            Tail(HeldSamples(call.before))
            \o <<heap.s_history[call.before.s_history_head]>>

\* a sample was added to a full buffer whose oldest sample was not in slot 0
C29_Witness ==
  /\ AddedToFull
  /\ call.before.s_history_head = 1
  /\ heap.s_history[1].time_us = call.now_us

\* ---------------------------------------------------------------------
\* decode_rle_mask on its own.  call holds the arguments (rle_data is the
\* array handed in, rle_len the length passed with it), ret the outcome.
\* ---------------------------------------------------------------------
MaxRleLen == 5

\* bytes of the RLE input: with 1 or 2 as its high byte a run is longer than
\* the small masks
RleBytes == {0, 1, 2}

RECURSIVE ByteStrings(_)
ByteStrings(n) ==
  IF n = 0 THEN {<<>>}
  ELSE ByteStrings(n - 1)
       \cup {Append(b, v) : b \in {x \in ByteStrings(n - 1) : Len(x) = n - 1},
                            v \in RleBytes}

\* widths and heights: small ones, and 2^16, whose square does not fit the
\* 32 bits of size_t
MaskDims == {0, 1, 2, 3, 65536}

NoRleResult == [data |-> <<>>, ok |-> FALSE, rle_idx |-> 0, pixel_idx |-> 0]

InitRle ==
  /\ build \in Builds
  /\ g_osd_ctx = ZeroCtx
  /\ g_framebuffer = <<>>
  /\ unmatched_log_counter = 0
  /\ det_log_counter = 0
  /\ \E rle_data \in ByteStrings(MaxRleLen), width \in MaskDims,
        height \in MaskDims :
       \E rle_len \in 0..Len(rle_data) :
         call = [name |-> "none", rle_data |-> rle_data, rle_len |-> rle_len,
                 width |-> width, height |-> height]
  /\ ret = NoRleResult
  /\ lifecycle = "UNINIT"
  /\ trace = <<>>
  /\ decoded = NoDecode
  /\ calls = 0
  /\ heap = [fonts |-> 0, navball |-> 0]

\* decode_rle_mask(rle_data, rle_len, out_data, width, height) into a zeroed
\* output buffer
DecodeMask ==
  /\ call.name = "none"
  /\ ret' = DecodeRleMask(call.rle_data, call.rle_len, <<>>,
                          TotalPixels(call.width, call.height), 0, 0)
  /\ call' = [call EXCEPT !.name = "decode_rle_mask"]
  /\ UNCHANGED <<build, g_osd_ctx, g_framebuffer, unmatched_log_counter,
                 det_log_counter, lifecycle, trace, decoded, calls, heap>>

NextRle == DecodeMask

SpecRle == InitRle /\ [][NextRle]_vars

\* decode_rle_mask has returned
MaskDecoded == call.name = "decode_rle_mask"

\* width * height fits the 32 bits of size_t
FitsSizeT == LimbProduct(call.width, call.height).top = 0

\* the pixels filled are exactly width * height many
FilledExactly ==
  /\ LimbProduct(call.width, call.height).top = 0
  /\ ret.pixel_idx = LimbProduct(call.width, call.height).high * 65536
                     + LimbProduct(call.width, call.height).low

\* the call read no byte at or beyond rle_len and wrote no byte at or beyond
\* width * height
WithinBuffers ==
  /\ ret.rle_idx <= call.rle_len
  /\ FitsSizeT =>
       /\ ret.pixel_idx <= TotalPixels(call.width, call.height)
       /\ Len(ret.data) <= TotalPixels(call.width, call.height)
  /\ ~FitsSizeT =>
       Len(ret.data) <= ret.pixel_idx /\ ret.pixel_idx < 65536

====
